---- MODULE Spec2Model ----
(***************************************************************************)
(* Verification model of the Polymarket copy-trading bot.                  *)
(*                                                                         *)
(*   SpecSel    the leader-selection state machine (selector.ts) driven by *)
(*              evaluateSelection (index.ts)                               *)
(*   SpecPoll   the polling loop of index.ts: fetch, de-duplication by     *)
(*              trade key, the call of mirrorTrade and its bookkeeping     *)
(*   SpecMirror mirrorTrade (mirror.ts), one call after the other as the   *)
(*              single poll task makes them, suspended at each await       *)
(*              and with the UTC date changing                             *)
(*   SpecOrder  the same calls on a live configuration with the clock:     *)
(*              the balance cooldown, the GTD/GTC attempts, the retries    *)
(*   SpecRestart the polling loop over restarts of the process             *)
(*   SpecPure   the pure functions of preflight.ts and dataApi.ts          *)
(*   SpecScore  computeScores (scoring.ts), one task per target            *)
(*   SpecAllow  AllowanceManager.ensureAllowance (allowance.ts) under      *)
(*              concurrent callers                                         *)
(*                                                                         *)
(* Numbers.  Timestamps are small naturals (Date.now() is > 0).  Scores    *)
(* and P&L sums are integers.  A weight is the exact fraction              *)
(* [num, den]; switchMarginPct is counted in halves (1 + m = (2 + h)/2).   *)
(* In mirrorTrade prices are in cents, share counts in tenths of a share,  *)
(* notionals in mills (tenth of a cent = tenths of a share x cents); the   *)
(* ratios copyRatio, weight and slippagePct are exact fractions.  The      *)
(* arithmetic is exact where the program computes in binary floating point.*)
(***************************************************************************)
EXTENDS Integers, Sequences, FiniteSets, TLC

VARIABLES
    now,          \* Date.now()
    config,       \* the Config record loaded at startup
    leaderState,  \* table leader_state: [currentLeader, sinceMs]
    switches,     \* table switches: wallet -> lastSwitchedAwayMs (0 = no row)
    topkState,    \* table topk_state: the persisted list of selected wallets
    scores,       \* the TraderScore[] computeScores resolved with
    selection,    \* index.ts `selection`
    evalPc,       \* evaluateSelection: "idle" | "scored" (computeScores resolved)
                  \*   | "selected" (selectLeaders returned, before the log line)
    before,       \* history: the store rows and the time selectLeaders read,
                  \*   and the leader of the selection it replaced
    \* --- the polling loop (index.ts run)
    polling,            \* index.ts `polling`
    pollPc,             \* pollTrades: "idle" | "fetch" | "loop" | "mirroring" | "persist"
    batch,              \* the trades of this poll still to be looked at
    newestTimestamp,    \* fetchNewTradesForTarget's newestTimestamp
    inMemoryTradeKeys,  \* index.ts `inMemoryTradeKeys`
    processedCache,     \* StateStore.processedCache
    processedDb,        \* table processed_trades (the keys of its rows)
    tradingEnabled,     \* index.ts `tradingEnabled`
    lastSeen,           \* last_seen / the mirror cursor of the target wallet
    mirrorCalls,        \* history: trade key -> number of mirrorTrade calls
    storeHit,           \* history: state.hasProcessed stopped a key the
                        \*   in-memory set no longer held
    restarts,           \* history: how often the process was started again
    reordered,          \* history: the sort of the fetch changed the order of the rows
    feed,               \* the Trades the history of the target wallet can hold
    cursor,             \* MirrorCursorStore: the cursor of the target wallet
    busyReturned,       \* history: a pollTrades call found the cycle active and returned
    \* --- one mirrorTrade call after the other (mirror.ts)
    mirrorPc,           \* mirrorTrade: the await it is suspended at
    mirrorArgs,         \* the trade and the weight of the call
    mirrorLocals,       \* the locals of the call computed so far
    today,              \* the UTC date of Date.now(), as a day number
    dailyNotional,      \* table daily_notional: day -> notional
    mirrorResult,       \* the MirrorResult of the last call
    dailyAtCall,        \* history: daily_notional when the call began
    ordersPosted,       \* history: createAndPostOrder calls of this call
    balanceCooldownUntilMs,  \* mirror.ts `balanceCooldownUntilMs`
    lastBalanceErrorAt, \* history: Date.now() of the last submission that ended
                        \*   in a balance/allowance error (0: none)
    authFailure,        \* mirror.ts `authFailure`: its `at` (0: null)
    \* --- the pure functions (preflight.ts, dataApi.ts)
    purePc,             \* which function was applied last ("input" before any)
    pureIn,             \* its arguments
    pureOut,            \* its result
    \* --- computeScores (scoring.ts)
    scorePc,            \* computeScores: "idle" | "running" | "resolved" | "rejected"
    scoreTargets,       \* its targets
    scoreTasks,         \* per target: the task the limiter runs
    savedScores,        \* table scores
    scoreResult,        \* what the promise resolved with
    \* --- one AllowanceManager (allowance.ts)
    allowCallers,       \* the ensureAllowance calls: where each one stands
    allowChecks,        \* the performCheck calls made, each a promise
    inFlight,           \* AllowanceManager.inFlight: a performCheck call, 0 = null
    lastApprovalMs,     \* AllowanceManager.lastApprovalMs
    approvals           \* history: lastApprovalMs of the attempts that sent approve

selVars == <<now, config, leaderState, switches, topkState, scores, selection, evalPc, before>>

pollVars == <<polling, pollPc, batch, newestTimestamp, inMemoryTradeKeys, processedCache,
              processedDb, tradingEnabled, lastSeen, mirrorCalls, storeHit, restarts,
              reordered, feed, cursor, busyReturned>>

mirVars == <<mirrorPc, mirrorArgs, mirrorLocals, today, dailyNotional, mirrorResult,
             dailyAtCall, ordersPosted, balanceCooldownUntilMs, lastBalanceErrorAt, authFailure>>

pureVars == <<purePc, pureIn, pureOut>>

scoreVars == <<scorePc, scoreTargets, scoreTasks, savedScores, scoreResult>>

allowVars == <<allowCallers, allowChecks, inFlight, lastApprovalMs, approvals>>

auxVars == <<pureVars, scoreVars, allowVars>>

vars == <<selVars, pollVars, mirVars, auxVars>>

\* ------------------------------------------------------------------ bounds

\* Date.now() is observed up to MaxNow.
MaxNow == 3

\* ------------------------------------------------------------- small helpers

NoWallet == "none"

Max(a, b) == IF a >= b THEN a ELSE b

Min(a, b) == IF a <= b THEN a ELSE b

RECURSIVE SumSeq(_)
SumSeq(s) == IF s = <<>> THEN 0 ELSE Head(s) + SumSeq(Tail(s))

SeqRange(s) == {s[i] : i \in 1..Len(s)}

\* Array.prototype.slice(0, n)
Slice(s, n) == SubSeq(s, 1, Min(n, Len(s)))

\* ------------------------------------------------------------------ scoring

\* Every wallet the store may hold a row for.
Wallets == {"w1", "w2", "w3"}

\* The score of an ineligible wallet or of a failed computation (-1e9): it is
\* below every score an eligible wallet gets and below every config.stopScore.
SentinelScore == -9

\* What computeScores can resolve with for one wallet: the sentinel when the
\* sample is too small or a fetch failed, otherwise a score and the realized
\* P&L sum of the lookback window (which only the LEADER branch reads).
ScoreOutcomes(mode) ==
    {[score |-> SentinelScore, realizedPnlSum |-> 0, eligible |-> FALSE]}
    \cup (IF mode = "LEADER"
          THEN {[score |-> s, realizedPnlSum |-> 0, eligible |-> TRUE] : s \in {-1, 0, 2, 3}}
               \cup {[score |-> 2, realizedPnlSum |-> -1, eligible |-> TRUE]}
          ELSE {[score |-> s, realizedPnlSum |-> 0, eligible |-> TRUE] : s \in {-1, 1, 2}})

TraderScore(w, o) ==
    [proxyWallet |-> w, score |-> o.score, realizedPnlSum |-> o.realizedPnlSum,
     eligible |-> o.eligible]

\* ------------------------------------------------------------------ selector

RECURSIVE InsertByScore(_, _)
InsertByScore(x, sorted) ==
    IF sorted = <<>> THEN <<x>>
    ELSE IF Head(sorted).score >= x.score
         THEN <<Head(sorted)>> \o InsertByScore(x, Tail(sorted))
         ELSE <<x>> \o sorted

\* [...scores].sort((a, b) => b.score - a.score): descending, stable.
RECURSIVE sortScores(_)
sortScores(s) ==
    IF s = <<>> THEN <<>>
    ELSE LET front == SubSeq(s, 1, Len(s) - 1)
         IN  InsertByScore(s[Len(s)], sortScores(front))

\* Variant of inCooldown: the cooldown ends one tick early.
cooldownShort(sw, proxyWallet, cooldownMs, t) ==
    sw[proxyWallet] > 0 /\ t - sw[proxyWallet] < cooldownMs - 1

\* Variant of inCooldown: no wallet is ever in cooldown.
cooldownOver(sw, proxyWallet, cooldownMs, t) == FALSE

inCooldown(sw, proxyWallet, cooldownMs, t) ==
    LET last == sw[proxyWallet]
    IN  last > 0 /\ t - last < cooldownMs

\* Variants of TopKWeight: without the max(0, .) and with an equal share.
TopKWeightRaw(s, totalPositive) == [num |-> s.score, den |-> totalPositive]

TopKWeightEqual(s, totalPositive) == [num |-> 1, den |-> totalPositive]

\* The weight of one selected wallet in TOPK mode.
TopKWeight(s, totalPositive) == [num |-> Max(0, s.score), den |-> totalPositive]

TopKLeader(s, totalPositive) ==
    [proxyWallet |-> s.proxyWallet, score |-> s.score, weight |-> TopKWeight(s, totalPositive)]

LeaderEntry(s) ==
    [proxyWallet |-> s.proxyWallet, score |-> s.score, weight |-> [num |-> 1, den |-> 1]]

\* Variant of SetSwitchedAway: the rows that exist are refreshed as well.
refreshSwitches(sw, who, t) ==
    [w \in DOMAIN sw |-> IF w \in who \/ sw[w] > 0 THEN t ELSE sw[w]]

\* Variant of SetSwitchedAway: no row is written.
keepSwitches(sw, who, t) == sw

\* state.setSwitchedAway for every wallet of `who`
SetSwitchedAway(sw, who, t) == [w \in DOMAIN sw |-> IF w \in who THEN t ELSE sw[w]]

\* The TOPK branch of selectLeaders: the selection returned and the rows written.
SelectTopK(sc, cfg, sw, prev, t) ==
    LET eligible == SelectSeq(sc, LAMBDA s : s.eligible)
        sorted == sortScores(eligible)
        cooldownFiltered ==
            SelectSeq(sorted, LAMBDA s : ~inCooldown(sw, s.proxyWallet, cfg.cooldownMs, t))
        selected == Slice(cooldownFiltered, Max(1, cfg.topK))
        totalPositive ==
            SumSeq([i \in 1..Len(selected) |->
                       IF selected[i].score > 0 THEN selected[i].score ELSE 0])
        leaders == [i \in 1..Len(selected) |-> TopKLeader(selected[i], totalPositive)]
        selectedWallets == [i \in 1..Len(leaders) |-> leaders[i].proxyWallet]
    IN  IF Len(selected) = 0 \/ totalPositive <= 0
        THEN [selection |->
                 [mode |-> "TOPK", leader |-> NoWallet, leaders |-> <<>>,
                  reason |-> IF Len(selected) = 0
                             THEN IF Len(eligible) = 0 THEN "no-eligible-leaders"
                                  ELSE "cooldown-active"
                             ELSE "no-positive-scores"],
              switches |-> SetSwitchedAway(sw, SeqRange(prev), t),
              topk |-> <<>>]
        ELSE [selection |->
                 [mode |-> "TOPK", leader |-> NoWallet, leaders |-> leaders,
                  reason |-> IF Len(leaders) < cfg.topK THEN "topk-insufficient"
                             ELSE "topk-selection"],
              switches |-> SetSwitchedAway(sw, SeqRange(prev) \ SeqRange(selectedWallets), t),
              topk |-> selectedWallets]

\* scores.find((s) => s.proxyWallet === currentLeader): <<>> when there is none
FindScore(sc, w) == SelectSeq(sc, LAMBDA s : s.proxyWallet = w)

\* Variant of stopScoreTriggered: the stop score is never consulted.
stopScoreNever(cur, cfg) == FALSE

stopScoreTriggered(cur, cfg) == cur.score < cfg.stopScore

stopRealizedTriggered(cur, cfg) == cur.realizedPnlSum < cfg.stopRealizedPnl

\* Variant of canSwitch: no minimum hold.
canSwitchAnyAge(stopCondition, holdElapsed, cfg) == TRUE

canSwitch(stopCondition, holdElapsed, cfg) == stopCondition \/ holdElapsed >= cfg.minHoldMs

\* best.score >= currentScore.score * (1 + config.switchMarginPct)
MeetsThreshold(best, cur, cfg) == best.score * 2 >= cur.score * (2 + cfg.switchMarginHalves)

\* The LEADER branch of selectLeaders.
SelectLeader(sc, cfg, sw, ls, t) ==
    LET eligible == SelectSeq(sc, LAMBDA s : s.eligible)
        sorted == sortScores(eligible)
        hasBest == sorted # <<>>
        best == sorted[1]
        currentLeader == ls.currentLeader
        currentSince == ls.sinceMs
        found == FindScore(sc, currentLeader)
        hasCurrent == found # <<>>
        currentScore == found[1]
        bestFree == hasBest /\ ~inCooldown(sw, best.proxyWallet, cfg.cooldownMs, t)
        keep == [switches |-> sw, leaderState |-> ls]
        take(old) == [switches |-> SetSwitchedAway(sw, old, t),
                      leaderState |-> [currentLeader |-> best.proxyWallet, sinceMs |-> t]]
        pick(reason) == [mode |-> "LEADER", leader |-> best.proxyWallet,
                         leaders |-> <<LeaderEntry(best)>>, reason |-> reason]
    IN  IF currentLeader = NoWallet /\ bestFree
        THEN [selection |-> pick("initial-leader")] @@ take({})
        ELSE IF currentLeader = NoWallet \/ ~hasCurrent \/ ~currentScore.eligible
        THEN IF bestFree
             THEN [selection |-> pick("current-leader-ineligible")]
                  @@ take(IF currentLeader # NoWallet THEN {currentLeader} ELSE {})
             ELSE [selection |->
                      [mode |-> "LEADER", leader |-> NoWallet, leaders |-> <<>>,
                       reason |-> IF Len(eligible) = 0 THEN "no-eligible-leader"
                                  ELSE IF hasBest /\ ~bestFree THEN "cooldown-active"
                                  ELSE "no-eligible-leader"]] @@ keep
        ELSE LET stopScore == stopScoreTriggered(currentScore, cfg)
                 stopRealized == stopRealizedTriggered(currentScore, cfg)
                 stopCondition == stopScore \/ stopRealized
                 holdElapsed == t - currentSince
             IN  IF /\ hasBest
                    /\ best.proxyWallet # currentLeader
                    /\ canSwitch(stopCondition, holdElapsed, cfg)
                    /\ MeetsThreshold(best, currentScore, cfg)
                    /\ bestFree
                 THEN [selection |->
                          pick(IF stopScore THEN "stop-score-triggered"
                               ELSE IF stopRealized THEN "stop-realized-pnl-triggered"
                               ELSE "score-improvement")] @@ take({currentLeader})
                 ELSE [selection |->
                          [mode |-> "LEADER", leader |-> currentScore.proxyWallet,
                           leaders |-> <<LeaderEntry(currentScore)>>,
                           reason |-> IF holdElapsed < cfg.minHoldMs /\ ~stopCondition
                                      THEN "min-hold-not-satisfied"
                                      ELSE "holding-leader"]] @@ keep

\* Variant of shouldCopyTrade: every wallet's trades are copied.
shouldCopyAll(sel, w) == [copy |-> TRUE, weight |-> [num |-> 1, den |-> 1]]

\* index.ts shouldCopyTrade, for a trade of wallet w
shouldCopyTrade(sel, w) ==
    IF sel.mode = "LEADER"
    THEN IF sel.leader = NoWallet
         THEN [copy |-> FALSE, weight |-> [num |-> 0, den |-> 1]]
         ELSE [copy |-> sel.leader = w, weight |-> [num |-> 1, den |-> 1]]
    ELSE LET hit == SelectSeq(sel.leaders, LAMBDA l : l.proxyWallet = w)
         IN  IF hit # <<>> THEN [copy |-> TRUE, weight |-> hit[1].weight]
             ELSE [copy |-> FALSE, weight |-> [num |-> 0, den |-> 1]]

\* ------------------------------------------------------- selection: actions

\* The configurations the selection is checked under.
SelConfigs ==
    [followMode : {"LEADER"}, targets : {<<"w1", "w2">>}, topK : {2}, minHoldMs : {2}, cooldownMs : {2},
     stopScore : {0, 3}, stopRealizedPnl : {0}, switchMarginHalves : {0, 2}]
    \cup
    [followMode : {"TOPK"}, targets : {<<"w1", "w2", "w3">>}, topK : {1, 2}, minHoldMs : {2}, cooldownMs : {2},
     stopScore : {0}, stopRealizedPnl : {0}, switchMarginHalves : {0}]

NotEvaluated(cfg) ==
    [mode |-> cfg.followMode, leader |-> NoWallet, leaders |-> <<>>, reason |-> "not evaluated"]

NoBefore == [t |-> 0, leaderState |-> [currentLeader |-> NoWallet, sinceMs |-> 0],
             switches |-> [w \in Wallets |-> 0], topkState |-> <<>>,
             leader |-> NoWallet]

\* The polling loop before its first poll.
PollQuiet ==
    /\ polling = FALSE
    /\ pollPc = "idle"
    /\ batch = <<>>
    /\ newestTimestamp = 0
    /\ inMemoryTradeKeys = {}
    /\ processedCache = {}
    /\ processedDb = {}
    /\ tradingEnabled = TRUE
    /\ lastSeen = 1
    /\ mirrorCalls = <<>>
    /\ storeHit = FALSE
    /\ restarts = 0
    /\ reordered = FALSE
    /\ feed = {}
    /\ cursor = 0
    /\ busyReturned = FALSE

\* The selector before its first evaluation, under the configuration cfg.
SelQuiet(cfg) ==
    /\ config = cfg
    /\ leaderState = [currentLeader |-> NoWallet, sinceMs |-> 0]
    /\ switches = [w \in Wallets |-> 0]
    /\ topkState = <<>>
    /\ scores = <<>>
    /\ selection = NotEvaluated(cfg)
    /\ evalPc = "idle"
    /\ before = NoBefore

\* No pure function has been applied.
PureQuiet ==
    /\ purePc = "input"
    /\ pureIn = <<>>
    /\ pureOut = <<>>

AuxQuiet ==
    /\ PureQuiet
    /\ scorePc = "idle"
    /\ scoreTargets = <<>>
    /\ scoreTasks = <<>>
    /\ savedScores = {}
    /\ scoreResult = <<>>
    /\ allowCallers = <<>>
    /\ allowChecks = <<>>
    /\ inFlight = 0
    /\ lastApprovalMs = 0
    /\ approvals = <<>>

\* No mirrorTrade call is in progress.
MirrorQuiet ==
    /\ mirrorPc = "idle"
    /\ mirrorArgs = <<>>
    /\ mirrorLocals = <<>>
    /\ today = 1
    /\ dailyNotional = <<>>
    /\ mirrorResult = <<>>
    /\ dailyAtCall = <<>>
    /\ ordersPosted = 0
    /\ balanceCooldownUntilMs = 0
    /\ lastBalanceErrorAt = 0
    /\ authFailure = 0

InitSel ==
    /\ now = 1
    /\ config \in SelConfigs
    /\ leaderState = [currentLeader |-> NoWallet, sinceMs |-> 0]
    /\ switches = [w \in Wallets |-> 0]
    /\ topkState = <<>>
    /\ scores = <<>>
    /\ selection = NotEvaluated(config)
    /\ evalPc = "idle"
    /\ before = NoBefore
    /\ PollQuiet
    /\ MirrorQuiet
    /\ AuxQuiet

\* Time passes.
Tick ==
    /\ now < MaxNow
    /\ now' = now + 1
    /\ UNCHANGED <<config, leaderState, switches, topkState, scores, selection, evalPc, before>>
    /\ UNCHANGED <<pollVars, mirVars, auxVars>>

\* evaluateSelection up to the end of `await computeScores(...)`: one
\* TraderScore per target.
ComputeScores ==
    /\ evalPc = "idle"
    /\ \E o \in [1..Len(config.targets) -> ScoreOutcomes(config.followMode)] :
          scores' = [i \in 1..Len(config.targets) |-> TraderScore(config.targets[i], o[i])]
    /\ evalPc' = "scored"
    /\ UNCHANGED <<now, config, leaderState, switches, topkState, selection, before>>
    /\ UNCHANGED <<pollVars, mirVars, auxVars>>

\* evaluateSelection: `selection = selectLeaders(scores, config, state)`.
SelectLeadersTopK ==
    /\ evalPc = "scored"
    /\ config.followMode = "TOPK"
    /\ LET r == SelectTopK(scores, config, switches, topkState, now)
       IN  /\ selection' = r.selection
           /\ switches' = r.switches
           /\ topkState' = r.topk
    /\ evalPc' = "selected"
    /\ before' = [t |-> now, leaderState |-> leaderState, switches |-> switches,
                  topkState |-> topkState, leader |-> selection.leader]
    /\ UNCHANGED <<now, config, leaderState, scores>>
    /\ UNCHANGED <<pollVars, mirVars, auxVars>>

SelectLeadersLeader ==
    /\ evalPc = "scored"
    /\ config.followMode = "LEADER"
    /\ LET r == SelectLeader(scores, config, switches, leaderState, now)
       IN  /\ selection' = r.selection
           /\ switches' = r.switches
           /\ leaderState' = r.leaderState
    /\ evalPc' = "selected"
    /\ before' = [t |-> now, leaderState |-> leaderState, switches |-> switches,
                  topkState |-> topkState, leader |-> selection.leader]
    /\ UNCHANGED <<now, config, topkState, scores>>
    /\ UNCHANGED <<pollVars, mirVars, auxVars>>

\* evaluateSelection: logger.info("selection updated", ...) and return.
SelectionUpdated ==
    /\ evalPc = "selected"
    /\ evalPc' = "idle"
    /\ scores' = <<>>
    /\ before' = NoBefore
    /\ UNCHANGED <<now, config, leaderState, switches, topkState, selection>>
    /\ UNCHANGED <<pollVars, mirVars, auxVars>>

NextSel ==
    \/ Tick
    \/ ComputeScores
    \/ SelectLeadersTopK
    \/ SelectLeadersLeader
    \/ SelectionUpdated

SpecSel == InitSel /\ [][NextSel]_vars

\* ------------------------------------------------- selection: properties

Selected(mode) == evalPc = "selected" /\ config.followMode = mode

\* The wallets of the tick's scores that are eligible and outside cooldown
\* at the time of the tick.
FreeEligible ==
    {s \in SeqRange(scores) :
        /\ s.eligible
        /\ ~(before.switches[s.proxyWallet] > 0
             /\ before.t - before.switches[s.proxyWallet] < config.cooldownMs)}

\* The best eligible score of the tick: the highest score, the first of
\* them in the order of the scores when several wallets share it.
BestEligible ==
    LET idx == {i \in 1..Len(scores) : scores[i].eligible}
        top == {i \in idx : \A j \in idx : scores[j].score <= scores[i].score}
    IN  scores[CHOOSE i \in top : \A j \in top : i <= j]

HasEligible == \E s \in SeqRange(scores) : s.eligible

\* The score record of the leader held before the tick.
HeldScore == CHOOSE s \in SeqRange(scores) : s.proxyWallet = before.leaderState.currentLeader

Holding ==
    /\ before.leaderState.currentLeader # NoWallet
    /\ \E s \in SeqRange(scores) : s.proxyWallet = before.leaderState.currentLeader

\* C2: in LEADER mode, while the held leader w is younger than minHoldMs and
\* no stop condition holds for w, the tick returns w and leaves the persisted
\* leader row unchanged, whatever the other wallets score.
C2_MinHoldKeepsLeader ==
    (/\ Selected("LEADER")
     /\ Holding
     /\ before.t - before.leaderState.sinceMs < config.minHoldMs
     /\ HeldScore.score >= config.stopScore
     /\ HeldScore.realizedPnlSum >= config.stopRealizedPnl)
    => /\ selection.leader = before.leaderState.currentLeader
       /\ Len(selection.leaders) = 1
       /\ selection.leaders[1].proxyWallet = before.leaderState.currentLeader
       /\ leaderState = before.leaderState

\* A tick that kept a young leader although another eligible wallet scored
\* strictly higher.
C2_Witness ==
    /\ Selected("LEADER")
    /\ Holding
    /\ before.t - before.leaderState.sinceMs < config.minHoldMs
    /\ HeldScore.score >= config.stopScore
    /\ HeldScore.realizedPnlSum >= config.stopRealizedPnl
    /\ \E s \in SeqRange(scores) :
          /\ s.eligible
          /\ s.proxyWallet # before.leaderState.currentLeader
          /\ s.score > HeldScore.score
          /\ before.switches[s.proxyWallet] = 0
    /\ selection.leader = before.leaderState.currentLeader

SwitchedTo(b, reason) ==
    /\ leaderState = [currentLeader |-> b, sinceMs |-> before.t]
    /\ selection.leader = b
    /\ selection.reason = reason

One == [num |-> 1, den |-> 1]

\* C4: in LEADER mode the selection holds no leader or exactly one of weight
\* 1, and shouldCopyTrade copies (with weight 1) the trades of that wallet
\* and of no other.
C4_LeaderSingleWeight ==
    config.followMode = "LEADER" =>
        /\ \/ selection.leaders = <<>> /\ selection.leader = NoWallet
           \/ /\ Len(selection.leaders) = 1
              /\ selection.leaders[1].weight = One
              /\ selection.leaders[1].proxyWallet = selection.leader
        /\ \A w \in Wallets :
              LET d == shouldCopyTrade(selection, w)
              IN  /\ d.copy <=> (selection.leaders # <<>> /\ selection.leaders[1].proxyWallet = w)
                  /\ d.copy => d.weight = One

\* A leader is held and the trades of the other wallets are not copied.
C4_Witness ==
    /\ config.followMode = "LEADER"
    /\ Len(selection.leaders) = 1
    /\ shouldCopyTrade(selection, selection.leaders[1].proxyWallet).copy
    /\ \E w \in Wallets : ~shouldCopyTrade(selection, w).copy

\* C5: in TOPK mode the weights of a non-empty selection sum to 1, and the
\* selection is non-empty exactly when some eligible wallet outside cooldown
\* has a positive score (the top K of a non-empty set hold its maximum, so
\* their positive total is > 0 exactly then).
C5_TopKWeightsSumToOne ==
    Selected("TOPK") =>
        /\ selection.leaders # <<>> =>
              LET d == selection.leaders[1].weight.den
              IN  /\ d > 0
                  /\ \A i \in 1..Len(selection.leaders) : selection.leaders[i].weight.den = d
                  /\ SumSeq([i \in 1..Len(selection.leaders) |->
                                selection.leaders[i].weight.num]) = d
        /\ selection.leaders # <<>> <=> \E s \in FreeEligible : s.score > 0

\* Two wallets share the weight.
C5_Witness ==
    /\ Selected("TOPK")
    /\ Len(selection.leaders) = 2
    /\ selection.leaders[1].weight.num > 0
    /\ selection.leaders[2].weight.num > 0
    /\ selection.leaders[1].weight.num < selection.leaders[1].weight.den

\* C6 as claimed: every wallet of a TOPK selection has a weight > 0.
C6_TopKWeightsPositive ==
    Selected("TOPK") =>
        \A i \in 1..Len(selection.leaders) : selection.leaders[i].weight.num > 0

\* C6 amended: every weight is >= 0, it is > 0 exactly for the wallets with
\* a positive score, and a non-empty selection has a wallet of weight > 0.
C6_TopKWeightsNonNegative ==
    Selected("TOPK") =>
        /\ \A i \in 1..Len(selection.leaders) :
              /\ selection.leaders[i].weight.den > 0
              /\ selection.leaders[i].weight.num >= 0
              /\ selection.leaders[i].weight.num > 0 <=> selection.leaders[i].score > 0
        /\ selection.leaders # <<>> =>
              \E i \in 1..Len(selection.leaders) : selection.leaders[i].weight.num > 0

\* A selected wallet with a score <= 0 carries weight 0.
C6_Witness ==
    /\ Selected("TOPK")
    /\ \E i \in 1..Len(selection.leaders) :
          selection.leaders[i].score <= 0 /\ selection.leaders[i].weight.num = 0

\* The wallets of the selection the tick returned.
SelectedWallets == {selection.leaders[i].proxyWallet : i \in 1..Len(selection.leaders)}

\* The wallets of the selection persisted before the tick.
PrevWallets == SeqRange(before.topkState)

\* C28: in TOPK mode a tick sets lastSwitchedAway = now for exactly the wallets
\* of the persisted previous selection that are not in the new one and leaves
\* every other timestamp as it was; the persisted selection becomes the
\* returned one; and when no eligible wallet outside cooldown has a positive
\* score (the filtered top K is empty or sums to <= 0) the returned and the
\* persisted selection are empty and every previously selected wallet gets
\* lastSwitchedAway = now.
C28_TopKSwitchedAway ==
    Selected("TOPK") =>
        /\ \A w \in Wallets :
              switches[w] = IF w \in PrevWallets \ SelectedWallets THEN before.t
                            ELSE before.switches[w]
        /\ SeqRange(topkState) = SelectedWallets
        /\ Len(topkState) = Len(selection.leaders)
        /\ (~\E s \in FreeEligible : s.score > 0) =>
              /\ selection.leaders = <<>>
              /\ topkState = <<>>
              /\ \A w \in PrevWallets : switches[w] = before.t

\* One wallet is dropped and enters cooldown while another, which carries an
\* older timestamp, stays selected and keeps it.
C28_Witness ==
    /\ Selected("TOPK")
    /\ \E w \in PrevWallets \ SelectedWallets :
          switches[w] = before.t /\ before.switches[w] # before.t
    /\ \E v \in PrevWallets \cap SelectedWallets :
          before.switches[v] > 0 /\ switches[v] = before.switches[v]

\* The eligible wallets outside cooldown no other such wallet outscores.
TopFree ==
    {s.proxyWallet : s \in {x \in FreeEligible : \A r \in FreeEligible : r.score <= x.score}}

\* C29 as claimed: in LEADER mode with no current leader, whenever an eligible
\* wallet is outside cooldown the tick ends holding the highest-scoring such
\* wallet, persisted with since = now; the result has no leader only when no
\* eligible wallet is outside cooldown.
C29_NoLeaderTakesBestFree ==
    (Selected("LEADER") /\ before.leader = NoWallet) =>
        /\ FreeEligible # {} =>
              /\ selection.leader \in TopFree
              /\ leaderState = [currentLeader |-> selection.leader, sinceMs |-> before.t]
        /\ selection.leader = NoWallet => FreeEligible = {}

\* The tick changed the persisted leader.
LeaderChanged == leaderState.currentLeader # before.leaderState.currentLeader

\* The tick left the leader it held although a better wallet was there and
\* the held one was under its stop score: the better one was in cooldown.
SwitchBackBlocked ==
    /\ Selected("LEADER")
    /\ Holding
    /\ HasEligible
    /\ selection.leader = before.leaderState.currentLeader
    /\ BestEligible.proxyWallet # selection.leader
    /\ HeldScore.eligible
    /\ HeldScore.score < config.stopScore
    /\ BestEligible.score * 2 >= HeldScore.score * (2 + config.switchMarginHalves)
    /\ before.switches[BestEligible.proxyWallet] > 0
    /\ before.t - before.switches[BestEligible.proxyWallet] < config.cooldownMs

\* C30: in LEADER mode a tick at time t that changes the leader from w to
\* another wallet sets lastSwitchedAway(w) = t; lastSwitchedAway changes in no
\* other way; and the leader a tick returns is never a wallet whose
\* lastSwitchedAway is less than cooldownMs before the tick, whatever the
\* scores are.
C30_NoSwitchBackInCooldown ==
    /\ [](Selected("LEADER") =>
            /\ (LeaderChanged /\ before.leaderState.currentLeader # NoWallet) =>
                   switches[before.leaderState.currentLeader] = before.t
            /\ selection.leader # NoWallet =>
                   /\ selection.leader = leaderState.currentLeader
                   /\ before.switches[selection.leader] > 0 =>
                          before.t - before.switches[selection.leader] >= config.cooldownMs
                   /\ switches[selection.leader] > 0 =>
                          before.t - switches[selection.leader] >= config.cooldownMs)
    /\ [][config.followMode = "LEADER" =>
             \A w \in Wallets :
                switches'[w] # switches[w] =>
                    /\ w = leaderState.currentLeader
                    /\ leaderState'.currentLeader # w
                    /\ switches'[w] = now]_vars

C30_Witness == SwitchBackBlocked

\* The score record of wallet w in the scores of the tick.
ScoreRow(w) == CHOOSE s \in SeqRange(scores) : s.proxyWallet = w

\* Wallet w is outside cooldown at the time of the tick, by the row the tick
\* read and by the row it left.
OutsideCooldown(w) ==
    /\ before.switches[w] > 0 => before.t - before.switches[w] >= config.cooldownMs
    /\ switches[w] > 0 => before.t - switches[w] >= config.cooldownMs

\* C35: every wallet of the selection a tick returns, the LEADER leader or a
\* TOPK leader, has a score row of that tick with eligible = true and a score
\* other than the sentinel, and is outside cooldown at that tick.
C35_SelectedEligibleAndFree ==
    evalPc = "selected" =>
        /\ \A w \in SelectedWallets :
              /\ \E s \in SeqRange(scores) : s.proxyWallet = w
              /\ ScoreRow(w).eligible
              /\ ScoreRow(w).score # SentinelScore
              /\ OutsideCooldown(w)
        /\ selection.leader # NoWallet => SelectedWallets = {selection.leader}
        /\ (config.followMode = "LEADER" /\ selection.leader = NoWallet) =>
               SelectedWallets = {}

\* A wallet that was switched away from is selected once its cooldown is
\* over, while another eligible wallet is passed over: it is in cooldown.
C35_Witness ==
    /\ evalPc = "selected"
    /\ \E w \in SelectedWallets : before.switches[w] > 0
    /\ \E s \in SeqRange(scores) :
          /\ s.eligible
          /\ s.proxyWallet \notin SelectedWallets
          /\ before.switches[s.proxyWallet] > 0
          /\ before.t - before.switches[s.proxyWallet] < config.cooldownMs

\* C36 as claimed: after every LEADER tick the persisted current leader is the
\* wallet of the returned leader, and it is cleared when the returned selection
\* has no leader.
C36_PersistedLeaderIsReturned ==
    Selected("LEADER") => leaderState.currentLeader = selection.leader

\* The wallets of the selection persisted before the step.
Persisted == SeqRange(topkState) \cup ({leaderState.currentLeader} \ {NoWallet})

\* C37: the lastSwitchedAway of a wallet is written only by a tick before
\* which the wallet was in the persisted selection and after which it is not
\* selected, and then to the time of the tick; a tick that only re-evaluates
\* the wallet leaves it alone, so a wallet is excluded by cooldown at no tick
\* that is cooldownMs or more after its last demotion.
C37_CooldownOnlyOnDemotion ==
    /\ [][\A w \in Wallets :
             switches'[w] # switches[w] =>
                 /\ w \in Persisted
                 /\ w \notin SelectedWallets'
                 /\ w \notin SeqRange(topkState')
                 /\ leaderState'.currentLeader # w
                 /\ switches'[w] = now]_vars
    /\ [](evalPc = "selected" =>
            \A s \in SeqRange(scores) :
               (/\ s.eligible
                /\ before.switches[s.proxyWallet] > 0
                /\ before.t - before.switches[s.proxyWallet] >= config.cooldownMs)
               => s \in FreeEligible)

\* A wallet demoted earlier and re-evaluated since is selected again.
C37_Witness ==
    /\ evalPc = "selected"
    /\ \E w \in SelectedWallets :
          /\ before.switches[w] > 0
          /\ before.t - before.switches[w] >= config.cooldownMs
          /\ switches[w] = before.switches[w]
          /\ w \notin PrevWallets
          /\ w # before.leaderState.currentLeader

\* ------------------------------------------------------------ polling loop

\* The in-memory key set is emptied when it grows past this size (50000 in
\* index.ts; scaled).
MaxMemKeys == 2

\* Rows in one answer of the trades endpoint.
MaxFetch == 2

\* The single monitored wallet, and the configuration of the polling runs.
PollConfig ==
    [followMode |-> "LEADER", targets |-> <<"w1">>, targetTraderWallet |-> "w1", topK |-> 2,
     minHoldMs |-> 2, cooldownMs |-> 2, stopScore |-> 0, stopRealizedPnl |-> 0,
     switchMarginHalves |-> 0, dryRun |-> FALSE,
     startFromNow |-> FALSE, mirrorBootstrapLookbackMs |-> 1, autoApprove |-> FALSE]

\* A Trade as normalizeTrade builds it from a row of the target's history:
\* the wallet is the polled wallet, the transaction hash is "" when the row
\* carries none.
FeedTrade(hash, ts) ==
    [proxyWallet |-> "w1", transactionHash |-> hash, conditionId |-> "m1",
     outcomeIndex |-> 0, side |-> "BUY", size |-> 10, price |-> 50, timestampMs |-> ts]

FeedTrades ==
    {FeedTrade("0xa", 2), FeedTrade("0xb", 2), FeedTrade("0xc", 3), FeedTrade("", 3)}

RECURSIVE SeqsUpTo(_, _)
SeqsUpTo(S, n) ==
    IF n = 0 THEN {<<>>}
    ELSE LET shorter == SeqsUpTo(S, n - 1)
         IN  shorter \cup {Append(q, x) : q \in shorter, x \in S}

\* A timestamp that is not a finite number (NaN).  Every comparison the code
\* makes with it is false.
NotFinite == -1

getMissingTradeFields(trade) ==
    (IF trade.proxyWallet = "" THEN {"proxyWallet"} ELSE {})
    \cup (IF trade.transactionHash = "" THEN {"transactionHash"} ELSE {})
    \cup (IF trade.conditionId = "" THEN {"conditionId"} ELSE {})
    \cup (IF trade.side \notin {"BUY", "SELL"} THEN {"side"} ELSE {})
    \cup (IF trade.timestampMs = NotFinite THEN {"timestamp"} ELSE {})

NoKey == <<>>

\* Variant of buildTradeKey: a Trade that fails the validation gets no
\* persistent key at all.
buildTradeKeyNoPoison(trade) ==
    IF getMissingTradeFields(trade) # {}
    THEN [key |-> NoKey, persistKey |-> NoKey]
    ELSE [key |-> <<trade.proxyWallet, trade.transactionHash, trade.conditionId,
                    trade.outcomeIndex, trade.side, trade.size, trade.price,
                    trade.timestampMs>>,
          persistKey |-> NoKey]

\* mirror.ts buildTradeKey: the key is the tuple of the eight fields; a Trade
\* that fails the validation has no key, and a persistent "invalid" key when
\* it carries a transaction hash and a finite timestamp.
buildTradeKey(trade) ==
    IF getMissingTradeFields(trade) # {}
    THEN [key |-> NoKey,
          persistKey |-> IF trade.transactionHash # "" /\ trade.timestampMs # NotFinite
                         THEN <<"invalid",
                                IF trade.proxyWallet = "" THEN "unknown"
                                ELSE trade.proxyWallet,
                                trade.transactionHash, trade.timestampMs>>
                         ELSE NoKey]
    ELSE [key |-> <<trade.proxyWallet, trade.transactionHash, trade.conditionId,
                    trade.outcomeIndex, trade.side, trade.size, trade.price,
                    trade.timestampMs>>,
          persistKey |-> NoKey]

TradeKeys == {buildTradeKey(t).key : t \in FeedTrades} \ {NoKey}

\* Variant of hasProcessed: the store never reports a key.
hasProcessedNever(cache, db, tradeKey) == FALSE

\* state.ts hasProcessed
hasProcessed(cache, db, tradeKey) == tradeKey \in cache \/ tradeKey \in db

\* state.ts markProcessed: the cache first, then the INSERT, which throws
\* when the database write fails (dbOk = FALSE).
markProcessed(cache, db, tradeKey, dbOk) ==
    [cache |-> cache \cup {tradeKey},
     db |-> IF dbOk THEN db \cup {tradeKey} ELSE db,
     threw |-> ~dbOk]

RECURSIVE InsertByTimestamp(_, _)
InsertByTimestamp(x, sorted) ==
    IF sorted = <<>> THEN <<x>>
    ELSE IF Head(sorted).timestampMs <= x.timestampMs
         THEN <<Head(sorted)>> \o InsertByTimestamp(x, Tail(sorted))
         ELSE <<x>> \o sorted

\* Variant of the sort: the rows stay as the pages returned them.
keepFetchOrder(s) == s

\* trades.sort((a, b) => a.timestampMs - b.timestampMs), a stable sort
RECURSIVE sortTrades(_)
sortTrades(s) ==
    IF s = <<>> THEN <<>>
    ELSE InsertByTimestamp(s[Len(s)], sortTrades(SubSeq(s, 1, Len(s) - 1)))

\* index.ts fetchNewTradesForTarget, its first lines: the lastSeen the rows
\* are compared with, and the last_seen row, which is written when it was 0.
fetchBase(storedLastSeen, cursorMs) ==
    LET seen == Max(storedLastSeen, cursorMs)
    IN  [lastSeen |-> seen,
         stored |-> IF storedLastSeen = 0 /\ seen > 0 THEN seen ELSE storedLastSeen]

\* Variant of fetchNewTradesForTarget: every row counts as new.
fetchEveryTrade(raw, seen) ==
    [fetched |-> raw,
     trades |-> sortTrades(raw),
     newestTimestamp |-> IF raw = <<>> THEN seen
                         ELSE CHOOSE m \in {raw[i].timestampMs : i \in 1..Len(raw)} \cup {seen} :
                                (\A i \in 1..Len(raw) : raw[i].timestampMs <= m) /\ seen <= m]

\* index.ts fetchNewTradesForTarget on the rows `raw`
fetchNewTradesForTarget(raw, seen) ==
    LET fresh == SelectSeq(raw, LAMBDA t : t.timestampMs > seen)
    IN  [fetched |-> fresh,
         trades |-> sortTrades(fresh),
         newestTimestamp |-> IF fresh = <<>> THEN seen
                             ELSE CHOOSE m \in {fresh[i].timestampMs : i \in 1..Len(fresh)} :
                                    \A i \in 1..Len(fresh) : fresh[i].timestampMs <= m]

\* What a mirrorTrade call hands back to the loop: a result (its status and
\* reason), or an exception.
MirrorOutcomes ==
    {[status |-> "placed", reason |-> "order placed"],
     [status |-> "skipped", reason |-> "allowance too low"],
     [status |-> "skipped", reason |-> "daily cap reached"],
     [status |-> "failed", reason |-> "order failed"],
     [status |-> "threw", reason |-> "mirror failed"]}

\* The scores computeScores can resolve with for the one target.
PollScoreOutcomes ==
    {[score |-> SentinelScore, realizedPnlSum |-> 0, eligible |-> FALSE],
     [score |-> 2, realizedPnlSum |-> 0, eligible |-> TRUE]}

\* cursor.ts load at time t: the base timestamp, and the cursors read from
\* the file (the set holds the cursor of the wallet, or nothing); with
\* startFromNow the file is not read.
load(cfg, fileCursors, t) ==
    [baseTimestampMs |-> IF cfg.startFromNow THEN t
                         ELSE Max(0, t - cfg.mirrorBootstrapLookbackMs),
     cursors |-> IF cfg.startFromNow THEN {} ELSE fileCursors]

\* cursor.ts ensureCursor: the cursor of the wallet, set to the base
\* timestamp when there is none.
ensureCursor(store) ==
    IF store.cursors # {} THEN CHOOSE c \in store.cursors : TRUE
    ELSE store.baseTimestampMs

\* cursor.ts updateCursor: the cursor only moves forward.
updateCursor(current, timestampMs) ==
    IF timestampMs > current THEN timestampMs ELSE current

\* The process after run() has read the configuration cfg at time t, opened
\* the store (last_seen row of the wallet: stored), loaded the cursor file
\* and called ensureCursor for the target.
PollConstructed(cfg, t, stored, fileCursors, rows) ==
    /\ now = t
    /\ config = cfg
    /\ leaderState = [currentLeader |-> NoWallet, sinceMs |-> 0]
    /\ switches = [w \in Wallets |-> 0]
    /\ topkState = <<>>
    /\ scores = <<>>
    /\ selection = NotEvaluated(cfg)
    /\ evalPc = "idle"
    /\ before = NoBefore
    /\ polling = FALSE
    /\ pollPc = "idle"
    /\ batch = <<>>
    /\ newestTimestamp = 0
    /\ inMemoryTradeKeys = {}
    /\ processedCache = {}
    /\ processedDb = {}
    /\ tradingEnabled = TRUE
    /\ lastSeen = stored
    /\ cursor = ensureCursor(load(cfg, fileCursors, t))
    /\ feed = rows
    /\ busyReturned = FALSE
    /\ mirrorCalls = [k \in TradeKeys |-> 0]
    /\ storeHit = FALSE
    /\ restarts = 0
    /\ reordered = FALSE
    /\ MirrorQuiet
    /\ AuxQuiet

InitPoll == PollConstructed(PollConfig, 1, 1, {1}, FeedTrades)

\* index.ts evaluateSelection, from the scores computeScores resolved with
\* to the new selection.
evaluateSelection ==
    /\ \E o \in PollScoreOutcomes :
         LET r == SelectLeader(<<TraderScore(config.targets[1], o)>>, config, switches,
                               leaderState, now)
         IN  /\ selection' = r.selection
             /\ switches' = r.switches
             /\ leaderState' = r.leaderState
    /\ UNCHANGED <<now, config, topkState, scores, evalPc, before>>
    /\ UNCHANGED <<pollVars, mirVars, auxVars>>

\* The allowance interval: updateTradingEnabled with the status the check
\* resolved with.
updateTradingEnabled ==
    /\ \E ok \in BOOLEAN : tradingEnabled' = IF config.dryRun THEN TRUE ELSE ok
    /\ UNCHANGED <<polling, pollPc, batch, newestTimestamp, inMemoryTradeKeys, processedCache,
                   processedDb, lastSeen, mirrorCalls, storeHit, restarts, feed, busyReturned, cursor,
                   reordered>>
    /\ UNCHANGED <<selVars, mirVars, auxVars>>

\* Variant of the first line of pollTrades: the flag is not looked at.
pollTradesAlwaysEnters(active) == TRUE

\* pollTrades, its first line: `if (polling) return;`
pollTradesEnters(active) == ~active

\* pollTrades is called (startup, the interval timer, the watchdog) while no
\* cycle is active.
PollStart ==
    /\ pollTradesEnters(polling)
    /\ polling' = TRUE
    /\ pollPc' = "fetch"
    /\ busyReturned' = FALSE
    /\ UNCHANGED <<batch, newestTimestamp, inMemoryTradeKeys, processedCache, processedDb,
                   tradingEnabled, lastSeen, mirrorCalls, storeHit, restarts, feed, cursor,
                   reordered>>
    /\ UNCHANGED <<selVars, mirVars, auxVars>>

\* fetchNewTradesForTarget resolves with the new trades of the rows the
\* endpoint answered with; an answer without new trades ends the task.
FetchTrades ==
    /\ pollPc = "fetch"
    /\ \E raw \in SeqsUpTo(feed, MaxFetch) :
         LET f == fetchNewTradesForTarget(raw, fetchBase(lastSeen, cursor).lastSeen)
         IN  /\ batch' = f.trades
             /\ newestTimestamp' = f.newestTimestamp
             /\ pollPc' = IF f.trades = <<>> THEN "persist" ELSE "loop"
             /\ reordered' = (f.trades # f.fetched)
    /\ lastSeen' = fetchBase(lastSeen, cursor).stored
    /\ UNCHANGED <<polling, inMemoryTradeKeys, processedCache, processedDb, tradingEnabled,
                   mirrorCalls, storeHit, restarts, feed, busyReturned, cursor>>
    /\ UNCHANGED <<selVars, mirVars, auxVars>>

\* The fetch rejects: "trade poll failed".
FetchFails ==
    /\ pollPc = "fetch"
    /\ pollPc' = "persist"
    /\ lastSeen' = fetchBase(lastSeen, cursor).stored
    /\ UNCHANGED <<polling, batch, newestTimestamp, inMemoryTradeKeys, processedCache,
                   processedDb, tradingEnabled, mirrorCalls, storeHit, restarts, feed, busyReturned, cursor,
                   reordered>>
    /\ UNCHANGED <<selVars, mirVars, auxVars>>

\* One pass of `for (const trade of trades)` up to its `continue`, to the
\* call of mirrorTrade, or to an exception of the store.  The result names
\* the values the pass leaves behind.
LoopPass(trade, dbOk) ==
    LET d == shouldCopyTrade(selection, trade.proxyWallet)
        kr == buildTradeKey(trade)
        same == [mem |-> inMemoryTradeKeys, cache |-> processedCache, db |-> processedDb,
                 calls |-> mirrorCalls, hit |-> storeHit, pc |-> "loop"]
    IN  IF trade.proxyWallet # config.targetTraderWallet \/ ~d.copy
        THEN same
        ELSE IF kr.key = NoKey
        THEN IF kr.persistKey = NoKey \/ hasProcessed(processedCache, processedDb, kr.persistKey)
             THEN same
             ELSE LET m == markProcessed(processedCache, processedDb, kr.persistKey, dbOk)
                  IN  [same EXCEPT !.cache = m.cache, !.db = m.db,
                                   !.pc = IF m.threw THEN "persist" ELSE "loop"]
        ELSE IF kr.key \in inMemoryTradeKeys
        THEN same
        ELSE LET added == inMemoryTradeKeys \cup {kr.key}
                 mem == IF Cardinality(added) > MaxMemKeys THEN {} ELSE added
             IN  IF hasProcessed(processedCache, processedDb, kr.key)
                 THEN [same EXCEPT !.mem = mem, !.hit = TRUE]
                 ELSE IF ~tradingEnabled
                 THEN LET m == markProcessed(processedCache, processedDb, kr.key, dbOk)
                      IN  [same EXCEPT !.mem = mem, !.cache = m.cache, !.db = m.db,
                                       !.pc = IF m.threw THEN "persist" ELSE "loop"]
                 ELSE [same EXCEPT !.mem = mem,
                                   !.calls[kr.key] = Min(mirrorCalls[kr.key] + 1, 2),
                                   !.pc = "mirroring"]

ProcessTrade ==
    /\ pollPc = "loop"
    /\ batch # <<>>
    /\ \E dbOk \in BOOLEAN :
         LET r == LoopPass(Head(batch), dbOk)
         IN  /\ inMemoryTradeKeys' = r.mem
             /\ processedCache' = r.cache
             /\ processedDb' = r.db
             /\ mirrorCalls' = r.calls
             /\ storeHit' = r.hit
             /\ pollPc' = r.pc
             /\ batch' = IF r.pc = "mirroring" THEN batch
                         ELSE IF r.pc = "persist" THEN <<>> ELSE Tail(batch)
    /\ UNCHANGED <<polling, newestTimestamp, tradingEnabled, lastSeen, restarts, feed, busyReturned, cursor,
                   reordered>>
    /\ UNCHANGED <<selVars, mirVars, auxVars>>

\* mirrorTrade settles: the bookkeeping after the await, or the catch block.
\* A store exception in the try block is caught and markProcessed is tried
\* again; a second one leaves the loop ("trade poll failed").
MirrorSettles ==
    /\ pollPc = "mirroring"
    /\ \E out \in MirrorOutcomes, dbOk \in BOOLEAN, dbOkAgain \in BOOLEAN :
         LET key == buildTradeKey(Head(batch)).key
             first == markProcessed(processedCache, processedDb, key, dbOk)
             again == markProcessed(first.cache, first.db, key, dbOkAgain)
             caught == out.status = "threw" \/ first.threw
             m == IF out.status = "threw" THEN again
                  ELSE IF first.threw THEN again ELSE first
         IN  /\ processedCache' = m.cache
             /\ processedDb' = m.db
             /\ tradingEnabled' = IF ~caught /\ out.status = "skipped"
                                     /\ out.reason = "allowance too low"
                                  THEN FALSE ELSE tradingEnabled
             /\ pollPc' = IF m.threw THEN "persist" ELSE "loop"
             /\ batch' = IF m.threw THEN <<>> ELSE Tail(batch)
    /\ UNCHANGED <<polling, newestTimestamp, inMemoryTradeKeys, lastSeen, mirrorCalls, storeHit, restarts, feed, busyReturned, cursor,
                   reordered>>
    /\ UNCHANGED <<selVars, mirVars, auxVars>>

\* The loop is through: setLastSeen and updateCursor.
LoopDone ==
    /\ pollPc = "loop"
    /\ batch = <<>>
    /\ lastSeen' = newestTimestamp
    /\ cursor' = updateCursor(cursor, newestTimestamp)
    /\ pollPc' = "persist"
    /\ UNCHANGED <<polling, batch, newestTimestamp, inMemoryTradeKeys, processedCache,
                   processedDb, tradingEnabled, mirrorCalls, storeHit, restarts, feed, busyReturned,
                   reordered>>
    /\ UNCHANGED <<selVars, mirVars, auxVars>>

\* Promise.all and cursorStore.persist settle; finally: polling = false.
PollEnds ==
    /\ pollPc = "persist"
    /\ polling' = FALSE
    /\ pollPc' = "idle"
    /\ reordered' = FALSE
    /\ UNCHANGED <<batch, newestTimestamp, inMemoryTradeKeys, processedCache, processedDb,
                   tradingEnabled, lastSeen, mirrorCalls, storeHit, restarts, feed, busyReturned, cursor>>
    /\ UNCHANGED <<selVars, mirVars, auxVars>>

\* pollTrades is called (the interval timer, the watchdog) while a cycle is
\* active: it returns at its first line.
PollBusy ==
    /\ ~pollTradesEnters(polling)
    /\ busyReturned' = TRUE
    /\ UNCHANGED <<polling, pollPc, batch, newestTimestamp, inMemoryTradeKeys, processedCache,
                   processedDb, tradingEnabled, lastSeen, mirrorCalls, storeHit, restarts,
                   reordered, feed, cursor>>
    /\ UNCHANGED <<selVars, mirVars, auxVars>>

NextPoll ==
    \/ evaluateSelection
    \/ updateTradingEnabled
    \/ PollStart
    \/ FetchTrades
    \/ FetchFails
    \/ ProcessTrade
    \/ MirrorSettles
    \/ LoopDone
    \/ PollEnds

SpecPoll == InitPoll /\ [][NextPoll]_vars

\* C1: mirrorTrade is called at most once for each trade key, whatever the
\* polls return and however often the in-memory key set is emptied.
C1_MirrorOncePerKey == \A k \in TradeKeys : mirrorCalls[k] <= 1

\* A key that was mirrored came back after the in-memory set had been
\* emptied, and the store stopped it.
C1_Witness ==
    /\ storeHit
    /\ \E k \in TradeKeys : mirrorCalls[k] = 1 /\ k \notin inMemoryTradeKeys
    /\ \A k \in TradeKeys : mirrorCalls[k] = 1

\* The trades of the poll not yet through the loop are in ascending order of
\* their timestamps; the first of them is the one in the loop body.
AscendingBatch ==
    \A i, j \in 1..Len(batch) : i < j => batch[i].timestampMs <= batch[j].timestampMs

\* C21: within the poll of the wallet the trades are passed to mirrorTrade
\* one at a time in non-decreasing order of timestampMs, whatever order the
\* pages returned them in: the fetched trades are sorted, the loop takes them
\* from the front, mirrorTrade is called for the first one only, and not
\* while an earlier call is awaited.
C21_AscendingOneAtATime ==
    /\ []AscendingBatch
    /\ [][(pollPc \in {"loop", "mirroring"} /\ pollPc' \in {"loop", "mirroring"}) =>
             (batch' = batch \/ batch' = Tail(batch))]_vars
    /\ [][mirrorCalls' # mirrorCalls =>
             /\ pollPc = "loop"
             /\ pollPc' = "mirroring"
             /\ batch' = batch
             /\ \E k \in TradeKeys :
                   /\ k = buildTradeKey(Head(batch)).key
                   /\ mirrorCalls' = [mirrorCalls EXCEPT ![k] = Min(@ + 1, 2)]]_vars

\* mirrorTrade is awaited for the older of two trades the endpoint returned
\* newest first; the newer one waits in the batch.
C21_Witness ==
    /\ pollPc = "mirroring"
    /\ reordered
    /\ Len(batch) = 2
    /\ batch[1].timestampMs < batch[2].timestampMs

\* A Trade that fails validateTradeRequiredFields: no condition id.
InvalidTrade(hash, ts) == [FeedTrade(hash, ts) EXCEPT !.conditionId = ""]

\* A history holding Trades that fail the validation, with and without a
\* transaction hash, next to one that passes.
PoisonFeed ==
    {FeedTrade("0xa", 2), InvalidTrade("0xb", 2), InvalidTrade("0xb", 3), InvalidTrade("", 3)}

InitPoison == PollConstructed(PollConfig, 1, 1, {1}, PoisonFeed)

SpecPoison == InitPoison /\ [][NextPoll]_vars

\* Trades buildTradeKey can be handed: every required field present or not,
\* the timestamp finite or not.
KeyInputs ==
    [proxyWallet : {"w1", ""}, transactionHash : {"0xb", ""}, conditionId : {"m1", ""},
     outcomeIndex : {0}, side : {"BUY", "HOLD"}, size : {10}, price : {50},
     timestampMs : {2, NotFinite}]

FailsValidation(trade) == getMissingTradeFields(trade) # {}

PoisonKeyOf(trade) ==
    <<"invalid", IF trade.proxyWallet = "" THEN "unknown" ELSE trade.proxyWallet,
      trade.transactionHash, trade.timestampMs>>

\* The loop body is at a Trade of the copied wallet that fails the validation.
AtInvalidTrade ==
    /\ pollPc = "loop"
    /\ batch # <<>>
    /\ FailsValidation(Head(batch))
    /\ Head(batch).proxyWallet = config.targetTraderWallet
    /\ shouldCopyTrade(selection, Head(batch).proxyWallet).copy

\* C34: for a trade that fails the required-field validation buildTradeKey
\* returns no key, and the key ("invalid", wallet, hash, timestamp) as the
\* persistent key exactly when the trade has a transaction hash and a finite
\* timestamp; the loop never calls mirrorTrade for such a trade; the pass of
\* the loop over it puts its persistent key into the store unless the store
\* has it, and leaves the store as it is when the store has it.
C34_InvalidTradePoisonKey ==
    /\ [](\A t \in KeyInputs :
            FailsValidation(t) =>
              /\ buildTradeKey(t).key = NoKey
              /\ buildTradeKey(t).persistKey # NoKey
                   <=> (t.transactionHash # "" /\ t.timestampMs # NotFinite)
              /\ buildTradeKey(t).persistKey \in {NoKey, PoisonKeyOf(t)})
    /\ [](pollPc = "mirroring" => ~FailsValidation(Head(batch)))
    /\ [][(batch # <<>> /\ FailsValidation(Head(batch))) => mirrorCalls' = mirrorCalls]_vars
    /\ [][(AtInvalidTrade /\ batch' # batch) =>
             LET pk == buildTradeKey(Head(batch)).persistKey
             IN  /\ pollPc' \in {"loop", "persist"}
                 /\ inMemoryTradeKeys' = inMemoryTradeKeys
                 /\ IF Head(batch).transactionHash = ""
                    THEN processedCache' = processedCache /\ processedDb' = processedDb
                    ELSE /\ pk = PoisonKeyOf(Head(batch))
                         /\ pk \in processedCache'
                         /\ hasProcessed(processedCache, processedDb, pk) =>
                              (processedCache' = processedCache /\ processedDb' = processedDb
                               /\ pollPc' = "loop")]_vars

\* A poll fetched two rows and is at the first of them, a trade without a
\* condition id whose persistent key an earlier poll has put into the store.
C34_Witness ==
    /\ AtInvalidTrade
    /\ Len(batch) = MaxFetch
    /\ buildTradeKey(Head(batch)).persistKey = <<"invalid", "w1", "0xb", 2>>
    /\ buildTradeKey(Head(batch)).persistKey \in processedDb
    /\ \A k \in TradeKeys : mirrorCalls[k] <= 1

\* The times run() starts at, the last_seen rows and the cursor files it
\* finds: a fresh database (0) or one of an earlier run, a cursor file that
\* is missing or holds a cursor.
StartTimes == {1, 2}

StoredLastSeen == {0, 2}

CursorFiles == {{}, {1}}

\* The history of the wallet holds a trade of time 2 and one of time 3.
CursorFeed == {FeedTrade("0xa", 2), FeedTrade("0xc", 3)}

InitCursor ==
    \E startFromNow \in BOOLEAN, t \in StartTimes, stored \in StoredLastSeen,
       fileCursors \in CursorFiles :
      PollConstructed([PollConfig EXCEPT !.startFromNow = startFromNow], t, stored,
                      fileCursors, CursorFeed)

SpecCursor == InitCursor /\ [][NextPoll]_vars

\* C39: the last_seen row and the cursor of the wallet never decrease; from
\* the start of a poll to the end of its loop their maximum stays as it is,
\* and a trade handed to mirrorTrade has a timestamp above it; with
\* startFromNow a trade handed to mirrorTrade is not older than the start of
\* the process.
C39_LastSeenAndCursorMonotone ==
    /\ [][lastSeen' >= lastSeen /\ cursor' >= cursor]_vars
    /\ [][~(pollPc = "loop" /\ batch = <<>>) =>
             Max(lastSeen', cursor') = Max(lastSeen, cursor)]_vars
    /\ [](pollPc = "mirroring" => Head(batch).timestampMs > Max(lastSeen, cursor))
    /\ []((config.startFromNow /\ pollPc = "mirroring") => ~(Head(batch).timestampMs < now))

\* A process started with startFromNow at time 2 on a fresh database hands a
\* trade of time 3 to mirrorTrade; the trades of time 2 were never mirrored.
C39_Witness ==
    /\ config.startFromNow
    /\ now = 2
    /\ pollPc = "mirroring"
    /\ Head(batch).timestampMs = 3
    /\ lastSeen = 2
    /\ cursor = 2
    /\ \A k \in TradeKeys : k[8] = 2 => mirrorCalls[k] = 0

\* The polling loop with the calls of pollTrades that find a cycle active.
NextCycle ==
    \/ NextPoll
    \/ PollBusy

InitCycle == PollConstructed(PollConfig, 1, 1, {1}, CursorFeed)

SpecCycle == InitCycle /\ [][NextCycle]_vars

\* Everything a poll cycle reads or writes.
CycleState ==
    <<polling, pollPc, batch, newestTimestamp, inMemoryTradeKeys, processedCache, processedDb,
      lastSeen, cursor, mirrorCalls>>

\* C40: at most one pollTrades cycle is active: a cycle starts only while
\* none is active, a call made while one is active returns and leaves the
\* cycle and the flag as they are, and the flag is false again whenever the
\* cycle has ended, however its task ended (a failed fetch or store write
\* goes the same way), so that a new cycle can start.
C40_OnePollCycle ==
    /\ [](polling <=> pollPc # "idle")
    /\ [][(pollPc # "fetch" /\ pollPc' = "fetch") =>
             (~polling /\ pollPc = "idle" /\ polling')]_vars
    /\ [][(polling /\ ~polling') => (pollPc = "persist" /\ pollPc' = "idle")]_vars
    /\ [][pollPc = "persist" => (pollPc' = "persist" \/ (pollPc' = "idle" /\ ~polling'))]_vars
    /\ [][(busyReturned' /\ ~busyReturned) => (polling /\ CycleState' = CycleState)]_vars
    /\ [](pollPc = "idle" => pollTradesEnters(polling))

\* A cycle is at its fetch after an earlier cycle's task failed with a store
\* exception, and a call made during this cycle has returned.
C40_Witness ==
    /\ polling
    /\ pollPc = "fetch"
    /\ busyReturned
    /\ processedCache \ processedDb # {}

\* Restarts of the process a behaviour takes.
MaxRestarts == 1

\* The process ends (a crash, a kill, a deploy) and run() starts anew: the
\* in-memory state is as constructed, the SQLite tables (processed_trades,
\* last_seen, leader_state) and the cursor file are as they were left. A
\* mirrorTrade call that was awaited is abandoned with the process. The
\* restarts taken are those between two polls and those during the await of
\* mirrorTrade.
Restart ==
    /\ restarts < MaxRestarts
    /\ pollPc \in {"idle", "mirroring"}
    /\ restarts' = restarts + 1
    /\ reordered' = FALSE
    /\ polling' = FALSE
    /\ pollPc' = "idle"
    /\ batch' = <<>>
    /\ newestTimestamp' = 0
    /\ inMemoryTradeKeys' = {}
    /\ processedCache' = {}
    /\ tradingEnabled' = TRUE
    /\ selection' = NotEvaluated(config)
    /\ cursor' = ensureCursor(load(config, {cursor}, now))
    /\ UNCHANGED <<processedDb, lastSeen, mirrorCalls, storeHit, feed, busyReturned>>
    /\ UNCHANGED <<now, config, leaderState, switches, topkState, scores, evalPc, before>>
    /\ UNCHANGED <<mirVars, auxVars>>

NextRestart ==
    \/ NextPoll
    \/ Restart

\* The poll loop over the runs of the process.
SpecRestart == InitPoll /\ [][NextRestart]_vars

\* The key reached the decision step: mirrorTrade was called for it, or
\* this run of the process marked it.
Decided(k) == mirrorCalls[k] >= 1 \/ k \in processedCache

\* The decision step of the key is at its await of mirrorTrade.
Mirroring(k) == pollPc = "mirroring" /\ buildTradeKey(Head(batch)).key = k

\* C20 as claimed: every key that reached the decision step is in the
\* persistent store once the step is over, whatever the outcome, and
\* mirrorTrade is never called for it again, restarts of the process
\* included.
C20_ProcessedForGood ==
    \A k \in TradeKeys :
        /\ (Decided(k) /\ ~Mirroring(k)) => k \in processedDb
        /\ mirrorCalls[k] <= 1

\* --------------------------------------------------------------- mirrorTrade

\* The UTC dates a run of calls spans.
MaxDay == 2

Days == 1..MaxDay

CeilDiv(a, b) == IF a % b = 0 THEN a \div b ELSE (a \div b) + 1

DigitValue(c) ==
    CASE c = "0" -> 0 [] c = "1" -> 1 [] c = "2" -> 2 [] c = "3" -> 3 [] c = "4" -> 4
      [] c = "5" -> 5 [] c = "6" -> 6 [] c = "7" -> 7 [] c = "8" -> 8 [] c = "9" -> 9

RECURSIVE DigitsValue(_)
DigitsValue(ds) ==
    IF ds = <<>> THEN 0 ELSE DigitsValue(SubSeq(ds, 1, Len(ds) - 1)) * 10 + DigitValue(ds[Len(ds)])

RECURSIVE Pow10(_)
Pow10(n) == IF n = 0 THEN 1 ELSE 10 * Pow10(n - 1)

\* value.indexOf("."), 1-based; 0 when there is none
IndexOfDot(value) ==
    IF \E i \in 1..Len(value) : value[i] = "."
    THEN CHOOSE i \in 1..Len(value) : value[i] = "." /\ \A j \in 1..(i - 1) : value[j] # "."
    ELSE 0

\* mirror.ts countDecimals, of a decimal string given as its characters
countDecimals(value) ==
    LET idx == IndexOfDot(value)
    IN  IF idx = 0 THEN 0 ELSE Len(value) - idx

\* Number(value) of a decimal string, in units of 10^-scale (the strings of
\* the model have at most `scale` decimals).
toNumber(value, scale) ==
    LET idx == IndexOfDot(value)
        whole == IF idx = 0 THEN value ELSE SubSeq(value, 1, idx - 1)
        frac == IF idx = 0 THEN <<>> ELSE SubSeq(value, idx + 1, Len(value))
    IN  DigitsValue(whole) * Pow10(scale) + DigitsValue(frac) * Pow10(scale - Len(frac))

\* Variant of roundSize: the size is rounded up.
roundSizeUp(value, precision) ==
    IF precision <= 0 THEN ((value + 9) \div 10) * 10 ELSE value

\* mirror.ts roundSize, on tenths of a share
roundSize(value, precision) ==
    IF precision <= 0 THEN (value \div 10) * 10 ELSE value

\* Variant of roundPriceToTick: the price is rounded down for either side.
roundPriceDown(num, den, tickSize, side) ==
    LET tick == toNumber(tickSize, 2)
    IN  (num \div (den * tick)) * tick

\* clob.ts roundPriceToTick of the price num/den cents, in cents
roundPriceToTick(num, den, tickSize, side) ==
    LET tick == toNumber(tickSize, 2)
        rounded == IF side = "BUY" THEN CeilDiv(num, den * tick) ELSE num \div (den * tick)
    IN  rounded * tick

\* Variant of addDailyNotional: the amount is booked twice.
addDailyNotionalTwice(daily, date, notional) ==
    [daily EXCEPT ![date] = @ + notional + notional]

\* state.ts addDailyNotional
addDailyNotional(daily, date, notional) == [daily EXCEPT ![date] = @ + notional]

\* mirror.ts `spent + x > config.maxDailyUsdc`, x = num/den mills
dailyCapReached(spent, num, den, cfg) == spent * den + num > cfg.maxDailyUsdc * den

\* Variant of capAfterRounding: no check after rounding.
capAfterRoundingSkipped(spent, notional, cfg) == FALSE

\* The second daily-cap check, on the rounded notional.
capAfterRounding(spent, notional, cfg) == dailyCapReached(spent, notional, 1, cfg)

\* Variant of findPosition: the first row of the market, whatever its outcome.
findPositionOfMarket(positions, trade) ==
    SelectSeq(positions, LAMBDA row : row.conditionId = trade.conditionId)

\* positions.find(row => same conditionId and outcomeIndex): the rows that
\* match, the first of them being the one found.
findPosition(positions, trade) ==
    SelectSeq(positions, LAMBDA row : /\ row.conditionId = trade.conditionId
                                      /\ row.outcomeIndex = trade.outcomeIndex)

\* Math.max(0, position?.size || 0), in tenths
availableShares(positions, trade) ==
    LET found == findPosition(positions, trade)
    IN  IF found = <<>> THEN 0 ELSE Max(0, found[1].size)

\* The configurations mirrorTrade is checked under: $1 per trade, $1.50 a
\* day, at most 5 shares, 2% slippage, half the leader's notional.
MirrorConfigs ==
    [followMode : {"LEADER"}, dryRun : BOOLEAN, tradingClient : BOOLEAN,
     copyRatio : {[num |-> 1, den |-> 2]}, maxUsdcPerTrade : {1000}, maxDailyUsdc : {1500},
     maxSharesPerTrade : {50}, slippagePct : {[num |-> 2, den |-> 100]},
     balanceErrorCooldownMs : {2}]

MirrorTrade(side, size) ==
    [proxyWallet |-> "w1", transactionHash |-> "0xa", conditionId |-> "m1",
     outcomeIndex |-> 0, side |-> side, size |-> size, price |-> 50, timestampMs |-> 2]

\* The signals: 4 or 8 shares at 50 cents, bought or sold.
MirrorTrades == {MirrorTrade(side, size) : side \in {"BUY", "SELL"}, size \in {40, 80}}

MirrorWeights == {[num |-> 1, den |-> 1], [num |-> 0, den |-> 1]}

\* Executable prices the book answers with, in cents (0: none).
ExecPrices == {0, 50}

\* OrderBookMeta: tick size and minimum order size as the strings the
\* exchange sends.
OrderBookMetas ==
    {[tickSize |-> <<"0", ".", "0", "1">>, minOrderSize |-> <<"1">>],
     [tickSize |-> <<"0", ".", "1">>, minOrderSize |-> <<"0", ".", "5">>]}

Position(outcomeIndex, size) == [conditionId |-> "m1", outcomeIndex |-> outcomeIndex, size |-> size]

\* What fetchPositions resolves with for the market (sizes in tenths).
PositionLists ==
    {<<>>, <<Position(0, 0)>>, <<Position(1, 30)>>, <<Position(1, 30), Position(0, 15)>>}

\* What an attemptOrder call ends with: the response of the exchange or the
\* error createAndPostWithRetry threw.
NoAttempt == [kind |-> "none", success |-> FALSE, message |-> {}]

\* The locals of a mirrorTrade call; and as history the time of the cooldown
\* gate (0: not reached) with the last balance error known then, the
\* collaborators called, the createAndPostOrder calls per order type, the
\* GTC attempts and what the GTD attempt ended with.
NoLocals ==
    [execPrice |-> 0, meta |-> <<>>, desired |-> [num |-> 0, den |-> 1], shares |-> 0,
     limitPrice |-> 0, notional |-> 0, positions |-> <<>>, fetchedPositions |-> FALSE,
     checkedDay |-> 0, attempt |-> 0, gateAt |-> 0, errAtGate |-> 0, calls |-> {},
     gtdPosts |-> 0, gtcPosts |-> 0, gtcAttempts |-> 0, gtdEnd |-> NoAttempt,
     retriedAfter |-> {}]

NoResult == [status |-> "none", reason |-> "", notional |-> 0, size |-> 0, limitPrice |-> 0]

Skipped(reason) == [NoResult EXCEPT !.status = "skipped", !.reason = reason]

Failed(reason) == [NoResult EXCEPT !.status = "failed", !.reason = reason]

InitMirror ==
    /\ now = 1
    /\ config \in MirrorConfigs
    /\ leaderState = [currentLeader |-> NoWallet, sinceMs |-> 0]
    /\ switches = [w \in Wallets |-> 0]
    /\ topkState = <<>>
    /\ scores = <<>>
    /\ selection = NotEvaluated(config)
    /\ evalPc = "idle"
    /\ before = NoBefore
    /\ PollQuiet
    /\ mirrorPc = "idle"
    /\ mirrorArgs = <<>>
    /\ mirrorLocals = NoLocals
    /\ today = 1
    /\ dailyNotional = [d \in Days |-> 0]
    /\ mirrorResult = NoResult
    /\ dailyAtCall = [d \in Days |-> 0]
    /\ ordersPosted = 0
    /\ balanceCooldownUntilMs = 0
    /\ lastBalanceErrorAt = 0
    /\ authFailure = 0
    /\ AuxQuiet

quietPoll == UNCHANGED <<selVars, pollVars, auxVars>>

\* Variant of DesiredShares: the share count is not capped.
desiredSharesUncapped(trade, weight, cfg, execPrice, spent) ==
    LET tradeNotional == trade.price * trade.size
        num == tradeNotional * cfg.copyRatio.num * weight.num
        den == cfg.copyRatio.den * weight.den
        desired == IF num > cfg.maxUsdcPerTrade * den
                   THEN [num |-> cfg.maxUsdcPerTrade, den |-> 1]
                   ELSE [num |-> num, den |-> den]
    IN  IF tradeNotional <= 0 THEN [skip |-> "invalid trade notional"]
        ELSE IF weight.num <= 0 THEN [skip |-> "non-positive weight"]
        ELSE IF desired.num <= 0 THEN [skip |-> "non-positive desired notional"]
        ELSE IF dailyCapReached(spent, desired.num, desired.den, cfg)
        THEN [skip |-> "daily cap reached"]
        ELSE [skip |-> "", desired |-> desired,
              shares |-> desired.num \div (desired.den * execPrice)]

\* mirrorTrade from `const tradeNotional` to the share count before the SELL
\* clamp: the three sanity skips, the first daily-cap check, the split of
\* the desired notional into shares.  `shares` holds the whole tenths of the
\* share count, which is all roundSize keeps of it.
DesiredShares(trade, weight, cfg, execPrice, spent) ==
    LET tradeNotional == trade.price * trade.size
        num == tradeNotional * cfg.copyRatio.num * weight.num
        den == cfg.copyRatio.den * weight.den
        desired == IF num > cfg.maxUsdcPerTrade * den
                   THEN [num |-> cfg.maxUsdcPerTrade, den |-> 1]
                   ELSE [num |-> num, den |-> den]
        shares == desired.num \div (desired.den * execPrice)
    IN  IF tradeNotional <= 0 THEN [skip |-> "invalid trade notional"]
        ELSE IF weight.num <= 0 THEN [skip |-> "non-positive weight"]
        ELSE IF desired.num <= 0 THEN [skip |-> "non-positive desired notional"]
        ELSE IF dailyCapReached(spent, desired.num, desired.den, cfg)
        THEN [skip |-> "daily cap reached"]
        ELSE [skip |-> "", desired |-> desired, shares |-> Min(shares, cfg.maxSharesPerTrade)]

\* mirrorTrade from `const minOrderSize` to the second daily-cap check: the
\* rounded size, the limit price, the notional.
SizeOrder(trade, cfg, execPrice, meta, shares, spent) ==
    LET minOrderSize == toNumber(meta.minOrderSize, 1)
        sizePrecision == countDecimals(meta.minOrderSize)
        rounded == roundSize(shares, sizePrecision)
        slip == cfg.slippagePct
        limitPrice == roundPriceToTick(
                          IF trade.side = "BUY" THEN execPrice * (slip.den + slip.num)
                                                ELSE execPrice * (slip.den - slip.num),
                          slip.den, meta.tickSize, trade.side)
        notional == rounded * limitPrice
    IN  IF rounded <= 0 \/ rounded < minOrderSize THEN [skip |-> "size below min"]
        ELSE IF limitPrice <= 0 THEN [skip |-> "invalid limit price"]
        ELSE IF capAfterRounding(spent, notional, cfg) THEN [skip |-> "daily cap reached"]
        ELSE [skip |-> "", shares |-> rounded, limitPrice |-> limitPrice,
              notional |-> notional]

\* Variant: the dry-run return is missing.
afterSizingLive(trade, cfg, loc, sized) ==
    /\ mirrorPc' = "gtd"
    /\ mirrorLocals' = [loc EXCEPT !.shares = sized.shares, !.limitPrice = sized.limitPrice,
                                   !.notional = sized.notional, !.checkedDay = today,
                                   !.calls = @ \cup {"submission"}]
    /\ UNCHANGED <<dailyNotional, mirrorResult>>

\* The statements after the second cap check when the order is sized: the
\* await they stop at, or the dry-run return.
AfterSizing(trade, cfg, loc, sized) ==
    LET l == [loc EXCEPT !.shares = sized.shares, !.limitPrice = sized.limitPrice,
                         !.notional = sized.notional, !.checkedDay = today]
    IN  IF trade.side = "BUY" /\ ~cfg.dryRun /\ cfg.tradingClient
        THEN /\ mirrorPc' = "allowance"
             /\ mirrorLocals' = [l EXCEPT !.calls = @ \cup {"allowance"}]
             /\ UNCHANGED <<dailyNotional, mirrorResult>>
        ELSE IF cfg.dryRun \/ ~cfg.tradingClient
        THEN /\ mirrorPc' = "returned"
             /\ mirrorLocals' = l
             /\ dailyNotional' = addDailyNotional(dailyNotional, today, sized.notional)
             /\ mirrorResult' = [status |-> "dry_run", reason |-> "dry run",
                                 notional |-> sized.notional, size |-> sized.shares,
                                 limitPrice |-> sized.limitPrice]
        ELSE /\ mirrorPc' = "gtd"
             /\ mirrorLocals' = [l EXCEPT !.calls = @ \cup {"submission"}]
             /\ UNCHANGED <<dailyNotional, mirrorResult>>

\* ORDER_RETRY_DELAYS_MS: the sleeps before the second, third and fourth
\* createAndPostOrder call of one order type.
ORDER_RETRY_DELAYS_MS == <<1000, 2000, 4000>>

Mentions(message, phrases) == message \cap phrases # {}

cooldownNeverActive(cfg, t, until) == FALSE

\* isBalanceCooldownActive with Date.now() = t.
isBalanceCooldownActive(cfg, t, until) ==
    IF cfg.balanceErrorCooldownMs <= 0 THEN FALSE ELSE t < until

isBalanceOrAllowanceError(message) ==
    Mentions(message, {"not enough balance", "insufficient balance", "insufficient funds",
                       "allowance"})

\* maybeTriggerBalanceCooldown with Date.now() = t: the new
\* balanceCooldownUntilMs.
maybeTriggerBalanceCooldown(cfg, message, t, until) ==
    IF ~isBalanceOrAllowanceError(message) THEN until
    ELSE IF t + cfg.balanceErrorCooldownMs > until THEN t + cfg.balanceErrorCooldownMs
    ELSE until

\* isAuthError on the message (the status codes 401 and 403 count as the
\* phrase "unauthorized").
isAuthError(message) == Mentions(message, {"unauthorized", "invalid api key", "api key"})

isNonceOrGasError(message) ==
    Mentions(message, {"nonce", "replacement", "underpriced", "gas", "fee too low"})

isExpirationError(message) == Mentions(message, {"gtd", "expiration"})

AUTH_BACKOFF_MS == 60 * 1000

\* Date.now() is counted in ticks of TickMs milliseconds.
TickMs == 30000

markAuthOk == 0

\* markAuthFailure with Date.now() = t: the `at` of the new authFailure.
markAuthFailure(t) == t

\* tradingPreflight's test of the backoff window with Date.now() = t.
authBackoffActive(t, failure) ==
    failure # 0 /\ (t - failure) * TickMs < AUTH_BACKOFF_MS

Return(result) ==
    /\ mirrorPc' = "returned"
    /\ mirrorResult' = result

\* Midnight UTC passes.
DayRollover ==
    /\ today < MaxDay
    /\ today' = today + 1
    /\ UNCHANGED <<mirrorPc, mirrorArgs, mirrorLocals, dailyNotional, mirrorResult, dailyAtCall,
                   ordersPosted, balanceCooldownUntilMs, lastBalanceErrorAt, authFailure>>
    /\ quietPoll

\* The poll loop calls mirrorTrade(trade, weight, ...): the required-field
\* check, then the await of the token ids.
MirrorCall ==
    /\ mirrorPc = "idle"
    /\ \E trade \in MirrorTrades, weight \in MirrorWeights :
         /\ mirrorArgs' = [trade |-> trade, weight |-> weight]
         /\ IF getMissingTradeFields(trade) # {}
            THEN /\ Return(Skipped("missing required trade fields"))
                 /\ mirrorLocals' = NoLocals
            ELSE /\ mirrorPc' = "token"
                 /\ mirrorResult' = NoResult
                 /\ mirrorLocals' = [NoLocals EXCEPT !.calls = {"token"}]
    /\ dailyAtCall' = dailyNotional
    /\ ordersPosted' = 0
    /\ UNCHANGED <<today, dailyNotional, balanceCooldownUntilMs, lastBalanceErrorAt, authFailure>>
    /\ quietPoll

\* getClobTokenIdsForCondition settles; token validation; the balance
\* cooldown gate of a BUY.
TokenResolved ==
    /\ mirrorPc = "token"
    /\ \E out \in {"ok", "invalid tokenId", "throws"} :
         LET gate == [mirrorLocals EXCEPT !.gateAt = now, !.errAtGate = lastBalanceErrorAt]
         IN  IF out = "throws"
             THEN Return([NoResult EXCEPT !.status = "threw"]) /\ UNCHANGED mirrorLocals
             ELSE IF out # "ok" THEN Return(Skipped(out)) /\ UNCHANGED mirrorLocals
             ELSE IF /\ mirrorArgs.trade.side = "BUY"
                     /\ isBalanceCooldownActive(config, now, balanceCooldownUntilMs)
             THEN Return(Skipped("balance/allowance cooldown")) /\ mirrorLocals' = gate
             ELSE /\ mirrorPc' = "market"
                  /\ mirrorLocals' = [gate EXCEPT !.calls = @ \cup {"market"}]
                  /\ UNCHANGED mirrorResult
    /\ UNCHANGED <<mirrorArgs, today, dailyNotional, dailyAtCall, ordersPosted,
                   balanceCooldownUntilMs, lastBalanceErrorAt, authFailure>>
    /\ quietPoll

MarketGateOutcomes(side) ==
    {"ok", "market metadata unavailable", "market category disallowed"}
    \cup (IF side = "BUY"
          THEN {"market closed/inactive", "missing market end time",
                "market expired/too close to end", "order TTL crosses market end"}
          ELSE {})

\* The market lookups settle and the market gate decides.
MarketResolved ==
    /\ mirrorPc = "market"
    /\ \E out \in MarketGateOutcomes(mirrorArgs.trade.side) :
         IF out # "ok" THEN Return(Skipped(out)) /\ UNCHANGED mirrorLocals
         ELSE /\ mirrorPc' = "price"
              /\ mirrorLocals' = [mirrorLocals EXCEPT !.calls = @ \cup {"price"}]
              /\ UNCHANGED mirrorResult
    /\ UNCHANGED <<mirrorArgs, today, dailyNotional, dailyAtCall, ordersPosted,
                   balanceCooldownUntilMs, lastBalanceErrorAt, authFailure>>
    /\ quietPoll

\* Price discovery (order book, then the price endpoint) settles.
PriceResolved ==
    /\ mirrorPc = "price"
    /\ \E execPrice \in ExecPrices :
         IF execPrice <= 0
         THEN Return(Skipped("invalid exec price")) /\ UNCHANGED mirrorLocals
         ELSE /\ mirrorPc' = "meta"
              /\ mirrorLocals' = [mirrorLocals EXCEPT !.execPrice = execPrice,
                                                      !.calls = @ \cup {"metadata"}]
              /\ UNCHANGED mirrorResult
    /\ UNCHANGED <<mirrorArgs, today, dailyNotional, dailyAtCall, ordersPosted,
                   balanceCooldownUntilMs, lastBalanceErrorAt, authFailure>>
    /\ quietPoll

\* getOrderbookMeta resolves: sizing up to the positions fetch of a SELL, or
\* for a BUY through to the allowance check or the dry-run return.
MetaResolved ==
    /\ mirrorPc = "meta"
    /\ \E meta \in OrderBookMetas :
         LET trade == mirrorArgs.trade
             d == DesiredShares(trade, mirrorArgs.weight, config, mirrorLocals.execPrice,
                                dailyNotional[today])
             loc == [mirrorLocals EXCEPT !.meta = meta]
         IN  IF d.skip # ""
             THEN Return(Skipped(d.skip)) /\ mirrorLocals' = loc /\ UNCHANGED dailyNotional
             ELSE LET l == [loc EXCEPT !.desired = d.desired, !.shares = d.shares]
                  IN  IF trade.side = "SELL"
                      THEN /\ mirrorPc' = "positions"
                           /\ mirrorLocals' = [l EXCEPT !.calls = @ \cup {"positions"}]
                           /\ UNCHANGED <<dailyNotional, mirrorResult>>
                      ELSE LET sized == SizeOrder(trade, config, l.execPrice, meta, l.shares,
                                                  dailyNotional[today])
                           IN  IF sized.skip # ""
                               THEN /\ Return(Skipped(sized.skip))
                                    /\ mirrorLocals' = l
                                    /\ UNCHANGED dailyNotional
                               ELSE AfterSizing(trade, config, l, sized)
    /\ UNCHANGED <<mirrorArgs, today, dailyAtCall, ordersPosted, balanceCooldownUntilMs,
                   lastBalanceErrorAt, authFailure>>
    /\ quietPoll

\* getOrderbookMeta rejects: mirrorTrade rejects with it.
MetaFails ==
    /\ mirrorPc = "meta"
    /\ Return([NoResult EXCEPT !.status = "threw"])
    /\ UNCHANGED <<mirrorArgs, mirrorLocals, today, dailyNotional, dailyAtCall, ordersPosted,
                   balanceCooldownUntilMs, lastBalanceErrorAt, authFailure>>
    /\ quietPoll

\* fetchPositions resolves (SELL): the clamp to the held size, then as for a
\* BUY.
PositionsResolved ==
    /\ mirrorPc = "positions"
    /\ \E positions \in PositionLists :
         LET trade == mirrorArgs.trade
             l == [mirrorLocals EXCEPT
                     !.positions = positions, !.fetchedPositions = TRUE,
                     !.shares = Min(mirrorLocals.shares, availableShares(positions, trade))]
             sized == SizeOrder(trade, config, l.execPrice, l.meta, l.shares,
                                dailyNotional[today])
         IN  IF sized.skip # ""
             THEN Return(Skipped(sized.skip)) /\ mirrorLocals' = l /\ UNCHANGED dailyNotional
             ELSE AfterSizing(trade, config, l, sized)
    /\ UNCHANGED <<mirrorArgs, today, dailyAtCall, ordersPosted, balanceCooldownUntilMs,
                   lastBalanceErrorAt, authFailure>>
    /\ quietPoll

\* fetchPositions rejects: mirrorTrade rejects with it.
PositionsFails ==
    /\ mirrorPc = "positions"
    /\ Return([NoResult EXCEPT !.status = "threw"])
    /\ UNCHANGED <<mirrorArgs, mirrorLocals, today, dailyNotional, dailyAtCall, ordersPosted,
                   balanceCooldownUntilMs, lastBalanceErrorAt, authFailure>>
    /\ quietPoll

\* allowanceManager.ensureAllowance settles (live BUY).
AllowanceResolved ==
    /\ mirrorPc = "allowance"
    /\ \E out \in {"ok", "allowance too low", "allowance check failed"} :
         IF out # "ok" THEN Return(Skipped(out)) /\ UNCHANGED mirrorLocals
         ELSE /\ mirrorPc' = "preflight"
              /\ UNCHANGED <<mirrorLocals, mirrorResult>>
    /\ UNCHANGED <<mirrorArgs, today, dailyNotional, dailyAtCall, ordersPosted,
                   balanceCooldownUntilMs, lastBalanceErrorAt, authFailure>>
    /\ quietPoll

\* tradingPreflight has the signer's address (live BUY): the configuration
\* passed validateConfig, so the signature and funder checks let it through;
\* inside the backoff window it returns, outside it fetches the balance.
PreflightResolved ==
    /\ mirrorPc = "preflight"
    /\ IF authBackoffActive(now, authFailure)
       THEN Return(Skipped("recent authentication failure")) /\ UNCHANGED mirrorLocals
       ELSE /\ mirrorPc' = "balance"
            /\ mirrorLocals' = [mirrorLocals EXCEPT !.calls = @ \cup {"balance"}]
            /\ UNCHANGED mirrorResult
    /\ UNCHANGED <<mirrorArgs, today, dailyNotional, dailyAtCall, ordersPosted,
                   balanceCooldownUntilMs, lastBalanceErrorAt, authFailure>>
    /\ quietPoll

\* getBalanceAllowance and getOpenOrders settle: an authentication error is
\* recorded, any other error ends the call, and answers clear authFailure
\* before the available collateral is compared with the notional.
BalanceResolved ==
    /\ mirrorPc = "balance"
    /\ \E out \in {"ok", "insufficient available collateral", "authentication failed",
                    "balance/allowance check failed"} :
         /\ authFailure' = IF out = "authentication failed" THEN markAuthFailure(now)
                           ELSE IF out = "balance/allowance check failed" THEN authFailure
                           ELSE markAuthOk
         /\ IF out # "ok" THEN Return(Skipped(out)) /\ UNCHANGED mirrorLocals
            ELSE /\ mirrorPc' = "gtd"
                 /\ mirrorLocals' = [mirrorLocals EXCEPT !.calls = @ \cup {"submission"}]
                 /\ UNCHANGED mirrorResult
    /\ UNCHANGED <<mirrorArgs, today, dailyNotional, dailyAtCall, ordersPosted,
                   balanceCooldownUntilMs, lastBalanceErrorAt>>
    /\ quietPoll

\* What createAndPostOrder can settle with: the exchange's response, accepted
\* or rejected with a message, or a thrown error. A message is the set of the
\* phrases the classifiers look for that it contains.
ErrorMessages ==
    {{"nonce"}, {"expiration"}, {"not enough balance"}, {"unauthorized"}, {}}

RejectMessages == {{"expiration"}, {"allowance"}, {}}

PostOutcomes ==
    {[kind |-> "resp", success |-> TRUE, message |-> {}]}
    \cup [kind : {"resp"}, success : {FALSE}, message : RejectMessages]
    \cup [kind : {"error"}, success : {FALSE}, message : ErrorMessages]

\* createAndPostWithRetry, the catch block: TRUE when the loop sleeps and
\* calls createAndPostOrder again, FALSE when it rethrows.
retryAlways(o, attempt) == o.kind = "error" /\ attempt < Len(ORDER_RETRY_DELAYS_MS)

retriesPost(o, attempt) ==
    /\ o.kind = "error"
    /\ isNonceOrGasError(o.message)
    /\ attempt < Len(ORDER_RETRY_DELAYS_MS)

\* The if / else-if after the GTD attempt: TRUE when attemptOrder is called
\* again with OrderType.GTC.
fallsBackAlways(attempt) == attempt.kind = "error" \/ ~attempt.success

fallsBackToGtc(attempt) ==
    \/ attempt.kind = "error" /\ isExpirationError(attempt.message)
    \/ /\ attempt.kind = "resp"
       /\ ~attempt.success
       /\ isExpirationError(attempt.message)

\* The end of mirrorTrade for the last attempt's outcome.
Outcome(attempt) ==
    IF attempt.kind = "error" \/ ~attempt.success
    THEN /\ balanceCooldownUntilMs' =
                maybeTriggerBalanceCooldown(config, attempt.message, now,
                                            balanceCooldownUntilMs)
         /\ lastBalanceErrorAt' = IF isBalanceOrAllowanceError(attempt.message)
                                  THEN now ELSE lastBalanceErrorAt
         /\ authFailure' = IF isAuthError(attempt.message)
                           THEN markAuthFailure(now) ELSE authFailure
         /\ UNCHANGED dailyNotional
         /\ Return(Failed(IF attempt.kind = "resp" THEN "order rejected"
                          ELSE IF isAuthError(attempt.message) THEN "auth failed"
                          ELSE "order failed"))
    ELSE /\ dailyNotional' = addDailyNotional(dailyNotional, today, mirrorLocals.notional)
         /\ UNCHANGED <<balanceCooldownUntilMs, lastBalanceErrorAt, authFailure>>
         /\ Return([status |-> "placed", reason |-> "order placed",
                    notional |-> mirrorLocals.notional, size |-> mirrorLocals.shares,
                    limitPrice |-> mirrorLocals.limitPrice])

\* A createAndPostOrder call of the GTD attempt settles: a retry after a
\* nonce/gas error, the fallback to GTC after an expiration error or
\* rejection, or the end of the call.
GtdSettles ==
    /\ mirrorPc = "gtd"
    /\ ordersPosted' = ordersPosted + 1
    /\ \E o \in PostOutcomes :
         LET posted == [mirrorLocals EXCEPT !.gtdPosts = @ + 1]
             ended == [posted EXCEPT !.attempt = 0, !.gtdEnd = o]
         IN  IF retriesPost(o, mirrorLocals.attempt)
             THEN /\ mirrorLocals' = [posted EXCEPT !.attempt = @ + 1,
                                                    !.retriedAfter = @ \cup {o.message}]
                  /\ UNCHANGED <<mirrorPc, dailyNotional, mirrorResult,
                                 balanceCooldownUntilMs, lastBalanceErrorAt, authFailure>>
             ELSE IF fallsBackToGtc(o)
             THEN /\ mirrorPc' = "gtc"
                  /\ mirrorLocals' = [ended EXCEPT !.gtcAttempts = @ + 1]
                  /\ UNCHANGED <<dailyNotional, mirrorResult, balanceCooldownUntilMs,
                                 lastBalanceErrorAt, authFailure>>
             ELSE mirrorLocals' = ended /\ Outcome(o)
    /\ UNCHANGED <<mirrorArgs, today, dailyAtCall>>
    /\ quietPoll

\* A createAndPostOrder call of the GTC attempt settles.
GtcSettles ==
    /\ mirrorPc = "gtc"
    /\ ordersPosted' = ordersPosted + 1
    /\ \E o \in PostOutcomes :
         LET posted == [mirrorLocals EXCEPT !.gtcPosts = @ + 1]
         IN  IF retriesPost(o, mirrorLocals.attempt)
             THEN /\ mirrorLocals' = [posted EXCEPT !.attempt = @ + 1,
                                                    !.retriedAfter = @ \cup {o.message}]
                  /\ UNCHANGED <<mirrorPc, dailyNotional, mirrorResult,
                                 balanceCooldownUntilMs, lastBalanceErrorAt, authFailure>>
             ELSE mirrorLocals' = [posted EXCEPT !.attempt = 0] /\ Outcome(o)
    /\ UNCHANGED <<mirrorArgs, today, dailyAtCall>>
    /\ quietPoll

\* Date.now() advances while a call is suspended or between calls.
ClockTick ==
    /\ now < MaxNow
    /\ now' = now + 1
    /\ UNCHANGED <<config, leaderState, switches, topkState, scores, selection, evalPc,
                   before>>
    /\ UNCHANGED <<pollVars, mirVars, auxVars>>

\* The caller takes the result; the next call can begin.
MirrorReturns ==
    /\ mirrorPc = "returned"
    /\ mirrorPc' = "idle"
    /\ mirrorArgs' = <<>>
    /\ mirrorLocals' = NoLocals
    /\ mirrorResult' = NoResult
    /\ dailyAtCall' = dailyNotional
    /\ ordersPosted' = 0
    /\ UNCHANGED <<today, dailyNotional, balanceCooldownUntilMs, lastBalanceErrorAt, authFailure>>
    /\ quietPoll

NextMirror ==
    \/ DayRollover
    \/ MirrorCall
    \/ TokenResolved
    \/ MarketResolved
    \/ PriceResolved
    \/ MetaResolved
    \/ MetaFails
    \/ PositionsResolved
    \/ PositionsFails
    \/ AllowanceResolved
    \/ PreflightResolved
    \/ BalanceResolved
    \/ GtdSettles
    \/ GtcSettles
    \/ MirrorReturns

SpecMirror == InitMirror /\ [][NextMirror]_vars

\* The calls of one UTC date on a live configuration, with the clock the
\* balance cooldown is measured on.
InitOrder == InitMirror /\ ~config.dryRun /\ config.tradingClient

NextOrder ==
    \/ ClockTick
    \/ MirrorCall
    \/ TokenResolved
    \/ MarketResolved
    \/ PriceResolved
    \/ MetaResolved
    \/ MetaFails
    \/ PositionsResolved
    \/ PositionsFails
    \/ AllowanceResolved
    \/ PreflightResolved
    \/ BalanceResolved
    \/ GtdSettles
    \/ GtcSettles
    \/ MirrorReturns

SpecOrder == InitOrder /\ [][NextOrder]_vars

\* ------------------------------------------------- mirrorTrade: properties

Returned == mirrorPc = "returned"

Booked == Returned /\ mirrorResult.status \in {"placed", "dry_run"}

C8_DailyChangesOnlyWhenBooked ==
    /\ mirrorPc \notin {"idle", "returned"} => dailyNotional = dailyAtCall
    /\ Returned =>
         IF mirrorResult.status \in {"placed", "dry_run"}
         THEN /\ mirrorResult.notional > 0
              /\ \E d \in Days :
                   dailyNotional = [dailyAtCall EXCEPT ![d] = @ + mirrorResult.notional]
         ELSE dailyNotional = dailyAtCall

\* A submission rejected after the GTD and the GTC attempt, on a date that
\* carries notional.
C8_Witness ==
    /\ Returned
    /\ mirrorResult.status = "failed"
    /\ ordersPosted = 2
    /\ dailyAtCall[today] > 0
    /\ dailyNotional = dailyAtCall

\* C9 as claimed: the notional of every placed or dry_run result is within
\* config.maxUsdcPerTrade.
C9_NotionalWithinTradeCap ==
    Booked => mirrorResult.notional <= config.maxUsdcPerTrade

\* The rows of the positions answer for the trade's market and outcome.
HeldRows ==
    {i \in 1..Len(mirrorLocals.positions) :
        /\ mirrorLocals.positions[i].conditionId = mirrorArgs.trade.conditionId
        /\ mirrorLocals.positions[i].outcomeIndex = mirrorArgs.trade.outcomeIndex}

HeldSize ==
    IF HeldRows = {} THEN 0
    ELSE mirrorLocals.positions[CHOOSE i \in HeldRows : \A j \in HeldRows : i <= j].size

\* C10: a placed or dry_run SELL has a size within the size of the position
\* of the trade's market and outcome in the positions answer of the call;
\* without such a position, or with one of size <= 0, the call is skipped
\* and posts no order.
C10_SellWithinPosition ==
    (Returned /\ mirrorArgs.trade.side = "SELL") =>
        /\ mirrorResult.status \in {"placed", "dry_run"} =>
              /\ mirrorLocals.fetchedPositions
              /\ HeldRows # {}
              /\ mirrorResult.size <= HeldSize
        /\ (mirrorLocals.fetchedPositions /\ HeldSize <= 0) =>
              /\ mirrorResult.status = "skipped"
              /\ ordersPosted = 0

\* A SELL placed for less than the sizing asked for, the answer also
\* holding a larger position of the other outcome.
C10_Witness ==
    /\ Returned
    /\ mirrorArgs.trade.side = "SELL"
    /\ mirrorResult.status = "placed"
    /\ mirrorResult.size <= HeldSize
    /\ HeldSize < mirrorLocals.desired.num \div (mirrorLocals.desired.den * mirrorLocals.execPrice)
    /\ \E i \in 1..Len(mirrorLocals.positions) : mirrorLocals.positions[i].size > HeldSize

\* C14: mirrorTrade never throws: whichever collaborator call fails (token-id
\* lookup, market metadata, price, order-book meta, positions fetch,
\* allowance check, preflight, submission), the call ends with a MirrorResult
\* of status skipped or failed.
C14_MirrorNeverThrows ==
    Returned => mirrorResult.status \in {"placed", "dry_run", "skipped", "failed"}

\* The call reached the cooldown gate before the window of the last balance
\* or allowance error, at errAtGate, had passed.
GateInCooldown ==
    /\ mirrorLocals.gateAt # 0
    /\ mirrorLocals.errAtGate # 0
    /\ config.balanceErrorCooldownMs > 0
    /\ mirrorLocals.gateAt < mirrorLocals.errAtGate + config.balanceErrorCooldownMs

CooldownHolds ==
    /\ (GateInCooldown /\ mirrorArgs.trade.side = "BUY") =>
          /\ Returned
          /\ mirrorResult = Skipped("balance/allowance cooldown")
          /\ mirrorLocals.calls = {"token"}
          /\ ordersPosted = 0
    /\ (GateInCooldown /\ mirrorArgs.trade.side = "SELL") =>
          /\ "market" \in mirrorLocals.calls
          /\ mirrorResult.reason # "balance/allowance cooldown"
    /\ lastBalanceErrorAt # 0 =>
          balanceCooldownUntilMs >= lastBalanceErrorAt + config.balanceErrorCooldownMs

\* C17: after a submission failed or was rejected with a balance/allowance
\* error at time t, with balanceErrorCooldownMs > 0, a BUY that reaches the
\* cooldown gate before t + balanceErrorCooldownMs is skipped with
\* "balance/allowance cooldown", having called only the token-id lookup; a
\* SELL goes on to the market lookups; and balanceCooldownUntilMs never
\* decreases.
C17_BalanceCooldown ==
    /\ []CooldownHolds
    /\ [][balanceCooldownUntilMs' >= balanceCooldownUntilMs]_vars

\* A BUY skipped at the gate at a time after the balance error and before
\* the end of its window.
C17_Witness ==
    /\ Returned
    /\ mirrorArgs.trade.side = "BUY"
    /\ mirrorResult.reason = "balance/allowance cooldown"
    /\ mirrorLocals.errAtGate # 0
    /\ mirrorLocals.gateAt > mirrorLocals.errAtGate
    /\ mirrorLocals.gateAt < balanceCooldownUntilMs

GtdEnded == mirrorLocals.gtdEnd # NoAttempt

GtdSucceeded == mirrorLocals.gtdEnd.kind = "resp" /\ mirrorLocals.gtdEnd.success

GtdExpired == ~GtdSucceeded /\ isExpirationError(mirrorLocals.gtdEnd.message)

\* C18: for one signal the GTC submission is attempted at most once, and only
\* after the GTD submission ended in an error or a rejection with an
\* expiration/GTD message; a GTD failure of another kind ends the call with a
\* failed result and no GTC attempt, and a GTD success is followed by no GTC
\* attempt.
C18_GtcOnlyAfterGtdExpiration ==
    /\ mirrorLocals.gtcAttempts <= 1
    /\ (mirrorLocals.gtcAttempts = 1 \/ mirrorLocals.gtcPosts > 0 \/ mirrorPc = "gtc") =>
          /\ mirrorLocals.gtcAttempts = 1
          /\ GtdEnded
          /\ GtdExpired
    /\ (GtdEnded /\ ~GtdSucceeded /\ ~GtdExpired) =>
          /\ Returned
          /\ mirrorResult.status = "failed"
          /\ mirrorLocals.gtcAttempts = 0
          /\ mirrorLocals.gtcPosts = 0
    /\ (GtdEnded /\ GtdSucceeded) =>
          /\ Returned
          /\ mirrorResult.status = "placed"
          /\ mirrorLocals.gtcAttempts = 0
          /\ mirrorLocals.gtcPosts = 0

\* An order placed by the GTC attempt after the exchange rejected the GTD
\* order with an expiration message.
C18_Witness ==
    /\ Returned
    /\ mirrorResult.status = "placed"
    /\ mirrorLocals.gtdEnd = [kind |-> "resp", success |-> FALSE, message |-> {"expiration"}]
    /\ mirrorLocals.gtcAttempts = 1
    /\ mirrorLocals.gtcPosts = 1

\* C19: createAndPostWithRetry calls createAndPostOrder at most 4 times per
\* order type, the first try and at most 3 retries after the delays 1000,
\* 2000 and 4000 ms; it retries only after a nonce/gas/fee error and rethrows
\* any other error at once; one signal causes at most 8 createAndPostOrder
\* calls.
C19_BoundedRetries ==
    /\ ORDER_RETRY_DELAYS_MS = <<1000, 2000, 4000>>
    /\ mirrorLocals.gtdPosts <= 4
    /\ mirrorLocals.gtcPosts <= 4
    /\ ordersPosted = mirrorLocals.gtdPosts + mirrorLocals.gtcPosts
    /\ ordersPosted <= 8
    /\ \A message \in mirrorLocals.retriedAfter : isNonceOrGasError(message)
    /\ mirrorPc = "gtd" => mirrorLocals.gtdPosts = mirrorLocals.attempt
    /\ mirrorPc = "gtc" => mirrorLocals.gtcPosts = mirrorLocals.attempt
    /\ (mirrorPc \in {"gtd", "gtc"} /\ mirrorLocals.attempt > 0) =>
          mirrorLocals.retriedAfter # {}

\* A signal that took 8 createAndPostOrder calls: three nonce errors and an
\* expiration error for the GTD order, four calls for the GTC order.
C19_Witness ==
    /\ Returned
    /\ mirrorLocals.gtdPosts = 4
    /\ mirrorLocals.gtcPosts = 4
    /\ ordersPosted = 8
    /\ mirrorLocals.gtdEnd = [kind |-> "error", success |-> FALSE, message |-> {"expiration"}]

\* C27 as claimed: once an authentication failure has been recorded at time
\* t, no createAndPostOrder call is made for any signal, BUY or SELL, before
\* t + 60 s.
C27_NoSubmissionInAuthBackoff ==
    mirrorPc \in {"gtd", "gtc"} => ~authBackoffActive(now, authFailure)

\* C25 as claimed: the market-lifecycle gate applies to BUY only; a SELL is
\* never skipped because the market metadata is unavailable, the market is
\* closed, archived or inactive, its category is disallowed, or its end time
\* is unknown or near.
C25_SellPassesMarketGate ==
    (Returned /\ mirrorArgs.trade.side = "SELL") =>
        mirrorResult.reason \notin
            {"market metadata unavailable", "market closed/inactive",
             "market category disallowed", "missing market end time",
             "market expired/too close to end", "order TTL crosses market end"}

\* The result the gates, the sizing and the pricing of the call give for its
\* trade, price, order-book meta and positions, the desired notional taken on
\* the date d: a skip reason, or the size, limit price and notional.
SizedFor(d) ==
    LET trade == mirrorArgs.trade
        want == DesiredShares(trade, mirrorArgs.weight, config, mirrorLocals.execPrice,
                              dailyAtCall[d])
        shares == IF trade.side = "SELL"
                  THEN Min(want.shares, availableShares(mirrorLocals.positions, trade))
                  ELSE want.shares
    IN  IF want.skip # "" THEN want
        ELSE SizeOrder(trade, config, mirrorLocals.execPrice, mirrorLocals.meta, shares,
                       dailyAtCall[mirrorLocals.checkedDay])

SizedAsComputed ==
    \E d \in Days :
        /\ SizedFor(d).skip = ""
        /\ mirrorResult.size = SizedFor(d).shares
        /\ mirrorResult.limitPrice = SizedFor(d).limitPrice
        /\ mirrorResult.notional = SizedFor(d).notional

\* C22: with config.dryRun set or without a trading client, mirrorTrade
\* never calls createAndPostOrder, never runs the allowance check or the
\* preflight, and returns only skipped or dry_run; the size, limit price and
\* notional of a dry_run result are those the gates, sizing and pricing give,
\* as they are for a placed order.
C22_DryRunPlacesNothing ==
    /\ (config.dryRun \/ ~config.tradingClient) =>
          /\ ordersPosted = 0
          /\ mirrorPc \notin {"allowance", "preflight", "balance", "gtd", "gtc"}
          /\ mirrorLocals.calls \cap {"allowance", "balance", "submission"} = {}
          /\ (Returned /\ mirrorResult.status # "threw") =>
                mirrorResult.status \in {"skipped", "dry_run"}
    /\ (Returned /\ mirrorResult.status = "dry_run") =>
          (config.dryRun \/ ~config.tradingClient)
    /\ Booked => SizedAsComputed

\* A dry_run result for a SELL clamped to the position held, without a
\* trading client.
C22_Witness ==
    /\ Returned
    /\ ~config.tradingClient
    /\ ~config.dryRun
    /\ mirrorResult.status = "dry_run"
    /\ mirrorArgs.trade.side = "SELL"
    /\ mirrorResult.size < mirrorLocals.desired.num \div
                              (mirrorLocals.desired.den * mirrorLocals.execPrice)
    /\ ordersPosted = 0

\* ------------------------------------------------------------ preflight.ts

USDC_DECIMALS == 6

SCALE == Pow10(USDC_DECIMALS)

\* Open orders in one getOpenOrders answer.
MaxOrders == 2

\* Digits before and after the decimal point of a money string.
MaxWholeLen == 2

MaxFracLen == 7

IsDigit(c) == c \in {"0", "1", "2", "3", "4", "5", "6", "7", "8", "9"}

AllDigits(s) == \A i \in 1..Len(s) : IsDigit(s[i])

DigitChar(d) ==
    CASE d = 0 -> "0" [] d = 1 -> "1" [] d = 2 -> "2" [] d = 3 -> "3" [] d = 4 -> "4"
      [] d = 5 -> "5" [] d = 6 -> "6" [] d = 7 -> "7" [] d = 8 -> "8" [] d = 9 -> "9"

\* bigint.toString() of a value >= 0
RECURSIVE ToDigits(_)
ToDigits(n) == IF n < 10 THEN <<DigitChar(n)>> ELSE Append(ToDigits(n \div 10), DigitChar(n % 10))

\* String.prototype.trim
RECURSIVE Trim(_)
Trim(s) ==
    IF s = <<>> THEN s
    ELSE IF Head(s) = " " THEN Trim(Tail(s))
    ELSE IF s[Len(s)] = " " THEN Trim(SubSeq(s, 1, Len(s) - 1))
    ELSE s

RECURSIVE padEnd(_, _, _)
padEnd(s, n, c) == IF Len(s) >= n THEN s ELSE padEnd(Append(s, c), n, c)

RECURSIVE padStart(_, _, _)
padStart(s, n, c) == IF Len(s) >= n THEN s ELSE padStart(<<c>> \o s, n, c)

\* replace(/0+$/, "")
RECURSIVE DropTrailingZeros(_)
DropTrailingZeros(s) ==
    IF s # <<>> /\ s[Len(s)] = "0" THEN DropTrailingZeros(SubSeq(s, 1, Len(s) - 1)) ELSE s

\* raw.match(/^(-?\d+)(\.(\d+))?$/): whether it matches, and its groups
MatchDecimal(raw) ==
    LET negative == raw # <<>> /\ Head(raw) = "-"
        body == IF negative THEN Tail(raw) ELSE raw
        idx == IndexOfDot(body)
        wholeStr == IF idx = 0 THEN body ELSE SubSeq(body, 1, idx - 1)
        fracStr == IF idx = 0 THEN <<>> ELSE SubSeq(body, idx + 1, Len(body))
    IN  [ok |-> /\ wholeStr # <<>>
                /\ AllDigits(wholeStr)
                /\ idx # 0 => (fracStr # <<>> /\ AllDigits(fracStr)),
         negative |-> negative, wholeStr |-> wholeStr, fracStr |-> fracStr]

\* preflight.ts parseDecimalToFixed, of a string given as its characters
parseDecimalToFixed(value, decimals, roundUp) ==
    LET raw == Trim(value)
        m == MatchDecimal(raw)
        frac == padEnd(Slice(m.fracStr, decimals), decimals, "0")
        dropped == SubSeq(m.fracStr, decimals + 1, Len(m.fracStr))
        bumped == DigitsValue(frac) + 1
        carry == IF bumped >= Pow10(decimals) THEN 1 ELSE 0
        fracNum == IF carry = 1 THEN bumped - Pow10(decimals) ELSE bumped
        roundedUp == (DigitsValue(m.wholeStr) + carry) * Pow10(decimals) + fracNum
        truncated == DigitsValue(m.wholeStr) * Pow10(decimals) + DigitsValue(frac)
        combined == IF /\ roundUp
                       /\ Len(m.fracStr) > decimals
                       /\ \E i \in 1..Len(dropped) : dropped[i] # "0"
                    THEN roundedUp
                    ELSE truncated
    IN  IF raw = <<>> \/ ~m.ok THEN 0
        ELSE IF m.negative THEN -combined ELSE combined

parseUsdcToMicro(value) == parseDecimalToFixed(value, USDC_DECIMALS, FALSE)

parseUsdcToMicroRoundedUp(value) == parseDecimalToFixed(value, USDC_DECIMALS, TRUE)

formatUsdcMicroNoPad(value) ==
    LET abs == IF value < 0 THEN -value ELSE value
        fracStr == DropTrailingZeros(ToDigits(abs % SCALE))
        result == IF fracStr # <<>> THEN ToDigits(abs \div SCALE) \o <<".">> \o fracStr
                  ELSE ToDigits(abs \div SCALE)
    IN  IF value < 0 THEN <<"-">> \o result ELSE result

\* preflight.ts formatUsdcMicro
formatUsdcMicro(value) ==
    LET negative == value < 0
        abs == IF negative THEN -value ELSE value
        whole == abs \div SCALE
        frac == abs % SCALE
        fracStr == DropTrailingZeros(padStart(ToDigits(frac), USDC_DECIMALS, "0"))
        result == IF fracStr # <<>> THEN ToDigits(whole) \o <<".">> \o fracStr ELSE ToDigits(whole)
    IN  IF negative THEN <<"-">> \o result ELSE result

\* String(side).toUpperCase() of the sides the model sends
ToUpperCase(side) == IF side \in {"buy", "Buy"} THEN "BUY" ELSE IF side = "sell" THEN "SELL" ELSE side

\* (a * b) / SCALE of two bigints >= 0.  The product is formed from the
\* operands' limbs of USDC_DECIMALS / 2 digits, so that no intermediate value
\* leaves the range of the model checker's integers.
MulDivScale(a, b) ==
    LET K == Pow10(USDC_DECIMALS \div 2)
        a2 == a \div SCALE
        a1 == (a % SCALE) \div K
        a0 == a % K
        b2 == b \div SCALE
        b1 == (b % SCALE) \div K
        b0 == b % K
    IN  a2 * b + (a % SCALE) * b2 + a1 * b1 + (((a1 * b0 + a0 * b1) * K + a0 * b0) \div SCALE)

\* The collateral one open order reserves (the body of the loop of
\* computeReservedUsdcMicro); 0 when the order is passed over.
ReservedByOrder(order) ==
    LET priceMicro == parseUsdcToMicroRoundedUp(order.price)
        originalSize == parseUsdcToMicroRoundedUp(order.original_size)
        matchedSize == parseUsdcToMicroRoundedUp(order.size_matched)
        remaining == IF originalSize > matchedSize THEN originalSize - matchedSize ELSE 0
    IN  IF ToUpperCase(order.side) # "BUY" THEN 0
        ELSE IF remaining <= 0 \/ priceMicro <= 0 THEN 0
        ELSE MulDivScale(priceMicro, remaining)

\* preflight.ts computeReservedUsdcMicro
RECURSIVE computeReservedUsdcMicro(_)
computeReservedUsdcMicro(openOrders) ==
    IF openOrders = <<>> THEN 0
    ELSE computeReservedUsdcMicro(SubSeq(openOrders, 1, Len(openOrders) - 1))
           + ReservedByOrder(openOrders[Len(openOrders)])

calculateAvailableUnclamped(balance, allowance, reserved) ==
    (IF balance < allowance THEN balance ELSE allowance) - reserved

\* preflight.ts calculateAvailableUsdcMicro
calculateAvailableUsdcMicro(balance, allowance, reserved) ==
    LET spendable == IF balance < allowance THEN balance ELSE allowance
        available == spendable - reserved
    IN  IF available > 0 THEN available ELSE 0

OpenOrder(side, original_size, size_matched, price) ==
    [side |-> side, original_size |-> original_size, size_matched |-> size_matched, price |-> price]

\* The open orders of the account, fields as the strings the exchange sends.
OpenOrders ==
    {OpenOrder("BUY", <<"1", "0", "0">>, <<"0">>, <<"0", ".", "5">>),
     OpenOrder("SELL", <<"1", "0", "0">>, <<"0">>, <<"0", ".", "5">>),
     OpenOrder("buy", <<"1", "0">>, <<"4">>, <<"0", ".", "2", "5">>),
     OpenOrder("BUY", <<"3">>, <<"3">>, <<"0", ".", "9">>),
     OpenOrder("BUY", <<"0", ".", "0", "0", "0", "0", "0", "1">>, <<"0">>, <<"0", ".", "5">>)}

\* balance and allowance of the getBalanceAllowance answer
BalanceStrings == {<<"1", "0", "0">>, <<"7", "5">>, <<"2", "5">>, <<"0", ".", "5">>}

PreflightInputs ==
    {[kind |-> "preflight", balance |-> b, allowance |-> a, openOrders |-> o] :
        b \in BalanceStrings, a \in BalanceStrings, o \in SeqsUpTo(OpenOrders, MaxOrders)}

\* Money strings: an optional sign, digits, an optional fraction; and some
\* strings the pattern of parseDecimalToFixed does not match.
MoneyStrings ==
    LET wholes == SeqsUpTo({"0", "1", "9"}, MaxWholeLen) \ {<<>>}
        fracs == SeqsUpTo({"0", "9"}, MaxFracLen)
        plain == {IF f = <<>> THEN w ELSE w \o <<".">> \o f : w \in wholes, f \in fracs}
    IN  plain \cup {<<"-">> \o p : p \in plain}
          \cup {<<" ">> \o p \o <<" ">> : p \in {<<"1", ".", "5">>}}
          \cup {<<>>, <<".", "5">>, <<"1", ".">>, <<"+", "1">>, <<"1", ".", "5", ".", "0">>}

MoneyInputs == {[kind |-> "money", value |-> s] : s \in MoneyStrings}

\* --------------------------------------------------------------- dataApi.ts

\* A field the raw record does not carry (undefined or null).
Absent == "undefined"

\* JavaScript numbers: a finite value in hundredths, NaN, or Infinity.
Finite(v) == [kind |-> "finite", v |-> v]

NaN == [kind |-> "NaN", v |-> 0]

Infinity == [kind |-> "Infinity", v |-> 0]

\* Number(value) of the values the feed carries
Number(value) ==
    CASE value = "" -> Finite(0)
      [] value = "0" -> Finite(0)
      [] value = "0.5" -> Finite(50)
      [] value = "1" -> Finite(100)
      [] value = "2" -> Finite(200)
      [] value = "4" -> Finite(400)
      [] value = "Infinity" -> Infinity
      [] OTHER -> NaN

isFinite(num) == num.kind = "finite"

\* dataApi.ts asNumber with its default fallback 0
asNumber(value) ==
    LET num == Number(value)
    IN  IF num = NaN THEN Finite(0) ELSE num

\* raw?.a ?? raw?.b ?? ... : the first of the named fields that is present
RECURSIVE Coalesce(_, _)
Coalesce(raw, names) ==
    IF names = <<>> THEN Absent
    ELSE IF Head(names) \in DOMAIN raw /\ raw[Head(names)] # Absent THEN raw[Head(names)]
    ELSE Coalesce(raw, Tail(names))

OrElse(value, fallback) == IF value = Absent THEN fallback ELSE value

\* null
Null == [kind |-> "null", v |-> 0]

\* time.ts toMs of a string or of nothing
toMs(input) ==
    IF input = Absent THEN Null
    ELSE IF input = "" THEN Null
    ELSE IF Number(input) # NaN THEN Finite(Number(input).v * 1000)
    ELSE Null

\* dataApi.ts normalizeTrade
normalizeTrade(raw, proxyWallet) ==
    LET conditionId == Coalesce(raw, <<"conditionId", "condition_id", "market", "marketId">>)
        outcomeIndex == asNumber(Coalesce(raw, <<"outcomeIndex", "outcome_index", "outcome">>))
        sideRaw == ToUpperCase(OrElse(Coalesce(raw, <<"side", "takerSide", "taker_side">>), ""))
        side == IF sideRaw = "BUY" \/ sideRaw = "SELL" THEN sideRaw ELSE Absent
        sizeRaw == OrElse(Coalesce(raw, <<"size", "quantity", "amount", "shares">>), "0")
        priceRaw == OrElse(Coalesce(raw, <<"price", "avgPrice", "rate">>), "0")
        size == asNumber(sizeRaw)
        price == asNumber(priceRaw)
        timestampRaw == Coalesce(raw, <<"timestamp", "time", "createdAt", "created_at">>)
        timestampMs == toMs(timestampRaw)
        transactionHash ==
            OrElse(Coalesce(raw, <<"transactionHash", "transaction_hash", "txHash">>), "")
    IN  IF conditionId = Absent \/ conditionId = "" \/ side = Absent \/ ~isFinite(outcomeIndex)
        THEN Null
        ELSE IF ~isFinite(size) \/ ~isFinite(price) THEN Null
        ELSE IF timestampMs = Null THEN Null
        ELSE [kind |-> "trade", proxyWallet |-> proxyWallet, transactionHash |-> transactionHash,
              conditionId |-> conditionId, outcomeIndex |-> outcomeIndex, side |-> side,
              size |-> size, price |-> price, sizeRaw |-> sizeRaw, priceRaw |-> priceRaw,
              timestampMs |-> timestampMs, timestampRaw |-> OrElse(timestampRaw, "")]

\* The records of a /trades answer: every field present and valid, absent,
\* or invalid; the side also under its other name.
RawTrades ==
    {[transactionHash |-> h, conditionId |-> c, outcomeIndex |-> o, side |-> s[1], takerSide |-> s[2],
      size |-> z, price |-> p, timestamp |-> t] :
        h \in {"0xa", Absent},
        c \in {"m1", Absent},
        o \in {"1", "abc", Absent},
        s \in {<<"BUY", Absent>>, <<Absent, "sell">>, <<"hold", Absent>>, <<Absent, Absent>>},
        z \in {"4", "Infinity", Absent},
        p \in {"0.5", "abc", Absent},
        t \in {"2", "abc", Absent}}

NormalizeInputs == {[kind |-> "raw", raw |-> r, proxyWallet |-> "w1"] : r \in RawTrades}

\* Signals and configurations for the sizing of mirrorTrade: 100, 4 or -4
\* shares at 50 cents or at no price; copy ratios 0.02 and 0.5; weights 0, 0.5
\* and 1; per-trade caps of 0, 1 and 50 USDC; share caps of 1.5 and 200
\* shares; executable prices of 20 and 50 cents.
SizingInputs ==
    [kind : {"sizing"},
     trade : {[MirrorTrade("BUY", size) EXCEPT !.price = price] :
                 size \in {1000, 40, -40}, price \in {50, 0}},
     weight : {[num |-> 0, den |-> 1], [num |-> 1, den |-> 2], [num |-> 1, den |-> 1]},
     config : [copyRatio : {[num |-> 2, den |-> 100], [num |-> 1, den |-> 2]},
               maxUsdcPerTrade : {0, 1000, 50000}, maxDailyUsdc : {1000000},
               maxSharesPerTrade : {15, 2000}],
     execPrice : {20, 50}]

\* Signals, configurations, prices, order-book metas and positions for the
\* rounding of size and price: 0.3, 4 or 100 shares at 50 cents, bought or
\* sold; copy ratios 1/2 and 1/3; per-trade caps of 1 and 50 USDC; share caps
\* of 1.5 and 20 shares; slippage 0, 2% and 15%; executable prices of 4, 20,
\* 50 and 97 cents; ticks of 0.01 and 0.1; minimum sizes "1", "0.5" and "5";
\* positions of 0, 0.3 and 1.5 shares, or none.
RoundingMetas ==
    OrderBookMetas \cup {[tickSize |-> <<"0", ".", "1">>, minOrderSize |-> <<"5">>]}

RoundingPositions == PositionLists \cup {<<Position(0, 3)>>}

RoundingInputs ==
    [kind : {"rounding"},
     trade : {MirrorTrade(side, size) : side \in {"BUY", "SELL"}, size \in {3, 40, 1000}},
     weight : {[num |-> 1, den |-> 1]},
     config : [copyRatio : {[num |-> 1, den |-> 2], [num |-> 1, den |-> 3]},
               maxUsdcPerTrade : {1000, 50000}, maxDailyUsdc : {1000000},
               maxSharesPerTrade : {15, 200},
               slippagePct : {[num |-> 0, den |-> 100], [num |-> 2, den |-> 100],
                              [num |-> 15, den |-> 100]}],
     execPrice : {4, 20, 50, 97},
     meta : RoundingMetas,
     positions : RoundingPositions]

\* mirrorTrade from `const tradeNotional` to the second daily-cap check,
\* nothing spent on the date: a skip reason, or the size, the limit price and
\* the notional of the order.
sizeAndPrice(trade, weight, cfg, execPrice, meta, positions) ==
    LET want == DesiredShares(trade, weight, cfg, execPrice, 0)
        shares == IF trade.side = "SELL"
                  THEN Min(want.shares, availableShares(positions, trade))
                  ELSE want.shares
    IN  IF want.skip # "" THEN want
        ELSE SizeOrder(trade, cfg, execPrice, meta, shares, 0)

\* Variant of marketEndGate: a market exactly at its safety margin passes.
marketEndGateLate(endMs, nowMs, cfg) ==
    LET maxTtlSeconds == ((endMs - nowMs) \div 1000) - cfg.expirationSafetySeconds
        ttlSeconds == Min(cfg.orderTtlSeconds, maxTtlSeconds)
    IN  IF endMs = 0 THEN [skip |-> "missing market end time", ttlSeconds |-> 0]
        ELSE IF nowMs > endMs - cfg.marketEndSafetySeconds * 1000
        THEN [skip |-> "market expired/too close to end", ttlSeconds |-> 0]
        ELSE IF ttlSeconds <= 1
        THEN [skip |-> "order TTL crosses market end", ttlSeconds |-> 0]
        ELSE [skip |-> "", ttlSeconds |-> ttlSeconds]

\* mirrorTrade, the BUY branch from `if (!endMs)` to `buyOrderTtlSeconds =
\* ttlSeconds`, with Date.now() = nowMs; endMs = 0 when neither lookup gave an
\* end time.
marketEndGate(endMs, nowMs, cfg) ==
    LET maxTtlSeconds == ((endMs - nowMs) \div 1000) - cfg.expirationSafetySeconds
        ttlSeconds == Min(cfg.orderTtlSeconds, maxTtlSeconds)
    IN  IF endMs = 0 THEN [skip |-> "missing market end time", ttlSeconds |-> 0]
        ELSE IF nowMs >= endMs - cfg.marketEndSafetySeconds * 1000
        THEN [skip |-> "market expired/too close to end", ttlSeconds |-> 0]
        ELSE IF ttlSeconds <= 1
        THEN [skip |-> "order TTL crosses market end", ttlSeconds |-> 0]
        ELSE [skip |-> "", ttlSeconds |-> ttlSeconds]

\* Date.now() at the gate, in ms.
GateNowMs == 1000000

\* The time to the end of the market, in ms: past, around the TTL limit,
\* around a safety margin of 300 s, and 10 minutes.
MsToEnd == {-1, 61999, 62000, 299999, 300000, 300001, 361999, 362000, 600000}

GateInputs ==
    [kind : {"gate"},
     endMs : {0} \cup {GateNowMs + d : d \in MsToEnd},
     nowMs : {GateNowMs},
     config : [marketEndSafetySeconds : {0, 300}, orderTtlSeconds : {1, 60, 400},
               expirationSafetySeconds : {60}]]

\* clob.ts computeGtdExpirationSeconds, on whole seconds
computeGtdExpirationSeconds(nowSeconds, ttlSeconds, safetySeconds) ==
    LET base == Max(0, nowSeconds)
        ttl == Max(0, ttlSeconds)
        safety == Max(0, safetySeconds)
        minExpiration == base + safety + 1
        candidate == base + safety + ttl
    IN  Max(minExpiration, candidate)

\* mirrorTrade for a live BUY, from the market-end gate at gateNowMs to the
\* expiration of the GTD order, which is computed when Date.now() is
\* submitNowMs: the skip reason of the gate, or the TTL and the expiration.
gtdExpiration(endMs, gateNowMs, submitNowMs, cfg) ==
    LET gate == marketEndGate(endMs, gateNowMs, cfg)
    IN  IF gate.skip # "" THEN [skip |-> gate.skip, ttlSeconds |-> 0, expiration |-> 0]
        ELSE [skip |-> "", ttlSeconds |-> gate.ttlSeconds,
              expiration |-> computeGtdExpirationSeconds(submitNowMs \div 1000, gate.ttlSeconds,
                                                         cfg.expirationSafetySeconds)]

\* The time from the gate to the computation of the expiration, in ms: the
\* awaits of the price, the order book, the allowance check and the
\* preflight lie in between.
SubmitDelaysMs == {0, 400, 1000, 5000}

ExpirationInputs ==
    [kind : {"expiration"},
     endMs : {GateNowMs + d : d \in MsToEnd},
     nowMs : {GateNowMs},
     delayMs : SubmitDelaysMs,
     config : [marketEndSafetySeconds : {0, 300}, orderTtlSeconds : {60, 400},
               expirationSafetySeconds : {60}]]

\* mirror.ts tradingPreflight: the signature and funder checks. An address is
\* the sequence of its characters; the empty sequence is a missing one.
AddressHexDigits == 40

Address(c) ==
    [i \in 1..(2 + AddressHexDigits) |-> IF i = 1 THEN "0" ELSE IF i = 2 THEN "x" ELSE c]

HexDigits ==
    {"0", "1", "2", "3", "4", "5", "6", "7", "8", "9",
     "a", "b", "c", "d", "e", "f", "A", "B", "C", "D", "E", "F"}

LowerOf(c) ==
    CASE c = "A" -> "a" [] c = "B" -> "b" [] c = "C" -> "c"
      [] c = "D" -> "d" [] c = "E" -> "e" [] c = "F" -> "f" [] OTHER -> c

toLowerCase(value) == [i \in DOMAIN value |-> LowerOf(value[i])]

\* /^0x[0-9a-fA-F]{40}$/ on a present value.
isValidAddress(value) ==
    /\ value # <<>>
    /\ Len(value) = 2 + AddressHexDigits
    /\ value[1] = "0"
    /\ value[2] = "x"
    /\ \A i \in 3..Len(value) : value[i] \in HexDigits

signatureCheckProxyAny(signatureType, funderAddress, walletAddress) ==
    IF signatureType = 0
    THEN IF /\ funderAddress # <<>>
            /\ walletAddress # <<>>
            /\ toLowerCase(funderAddress) # toLowerCase(walletAddress)
         THEN "SKIP_FUNDER_MISMATCH" ELSE "NONE"
    ELSE IF signatureType \in {1, 2} THEN "NONE"
    ELSE "SKIP_INVALID_SIGNATURE_TYPE"

\* The reasonCode the checks return with ("NONE": they let the call go on).
signatureCheck(signatureType, funderAddress, walletAddress) ==
    IF signatureType = 0
    THEN IF /\ funderAddress # <<>>
            /\ walletAddress # <<>>
            /\ toLowerCase(funderAddress) # toLowerCase(walletAddress)
         THEN "SKIP_FUNDER_MISMATCH" ELSE "NONE"
    ELSE IF signatureType \in {1, 2}
    THEN IF ~isValidAddress(funderAddress) THEN "SKIP_INVALID_FUNDER" ELSE "NONE"
    ELSE "SKIP_INVALID_SIGNATURE_TYPE"

\* tradingPreflight up to its first request to the exchange, with Date.now() =
\* nowMs, and what mirrorTrade does with a result that is not ok.
preflightChecks(signatureType, funderAddress, walletAddress, nowMs, failure) ==
    LET code == signatureCheck(signatureType, funderAddress, walletAddress)
        reasonCode == IF code # "NONE" THEN code
                      ELSE IF authBackoffActive(nowMs, failure) THEN "SKIP_AUTH_FAIL"
                      ELSE "NONE"
    IN  [reasonCode |-> reasonCode,
         authOk |-> reasonCode # "SKIP_AUTH_FAIL",
         fetched |-> reasonCode = "NONE",
         status |-> IF reasonCode = "NONE" THEN "none" ELSE "skipped"]

\* The signer of the trading client (missing: getSignerAddress caught an error).
SignerAddresses == {<<>>, Address("A")}

\* config.funderAddress: missing, the signer in either case, another wallet, a
\* value with a character that is no hex digit, a value that is too short.
FunderAddresses ==
    {<<>>, Address("A"), Address("a"), Address("b"), Address("g"), <<"0", "x", "a">>}

SignatureInputs ==
    [kind : {"signature"}, signatureType : {0, 1, 2, 3},
     funderAddress : FunderAddresses, walletAddress : SignerAddresses,
     nowMs : {2}, failure : {0, 1}]

PureInputs ==
    PreflightInputs \cup MoneyInputs \cup NormalizeInputs \cup SizingInputs \cup GateInputs
        \cup SignatureInputs \cup RoundingInputs \cup ExpirationInputs

InitPure ==
    /\ now = 1
    /\ SelQuiet(PollConfig)
    /\ PollQuiet
    /\ MirrorQuiet
    /\ purePc = "input"
    /\ pureIn \in PureInputs
    /\ pureOut = <<>>
    /\ scorePc = "idle"
    /\ scoreTargets = <<>>
    /\ scoreTasks = <<>>
    /\ savedScores = {}
    /\ scoreResult = <<>>
    /\ allowCallers = <<>>
    /\ allowChecks = <<>>
    /\ inFlight = 0
    /\ lastApprovalMs = 0
    /\ approvals = <<>>

quietPure == UNCHANGED <<selVars, pollVars, mirVars, scoreVars, allowVars, pureIn>>

\* mirror.ts checkPreflight from the getBalanceAllowance answer to
\* availableMicro, both collaborator calls having answered.
PreflightAvailable ==
    /\ purePc = "input"
    /\ pureIn.kind = "preflight"
    /\ LET balanceMicro == parseUsdcToMicro(pureIn.balance)
           allowanceMicro == parseUsdcToMicro(pureIn.allowance)
           reservedMicro == computeReservedUsdcMicro(pureIn.openOrders)
       IN  pureOut' = [balanceMicro |-> balanceMicro, allowanceMicro |-> allowanceMicro,
                       reservedMicro |-> reservedMicro,
                       availableMicro |->
                           calculateAvailableUsdcMicro(balanceMicro, allowanceMicro, reservedMicro)]
    /\ purePc' = "preflight"
    /\ quietPure

\* A money string is parsed to micro-units and the amount is formatted, as
\* checkPreflight does with balance and allowance for its log context.
MoneyRoundTrip ==
    /\ purePc = "input"
    /\ pureIn.kind = "money"
    /\ LET micro == parseUsdcToMicro(pureIn.value)
       IN  pureOut' = [micro |-> micro, text |-> formatUsdcMicro(micro)]
    /\ purePc' = "formatted"
    /\ quietPure

\* index.ts fetchNewTradesForTarget: one record of the page is normalized.
NormalizeTrade ==
    /\ purePc = "input"
    /\ pureIn.kind = "raw"
    /\ pureOut' = normalizeTrade(pureIn.raw, pureIn.proxyWallet)
    /\ purePc' = "normalized"
    /\ quietPure

\* mirrorTrade from `const tradeNotional` to the share cap, nothing spent on
\* the date.
SizeDesired ==
    /\ purePc = "input"
    /\ pureIn.kind = "sizing"
    /\ pureOut' = DesiredShares(pureIn.trade, pureIn.weight, pureIn.config, pureIn.execPrice, 0)
    /\ purePc' = "sized"
    /\ quietPure

\* The market-end gate of a BUY decides.
MarketEndGate ==
    /\ purePc = "input"
    /\ pureIn.kind = "gate"
    /\ pureOut' = marketEndGate(pureIn.endMs, pureIn.nowMs, pureIn.config)
    /\ purePc' = "gated"
    /\ quietPure

\* The size and the limit price of an order are computed.
SizeAndPrice ==
    /\ purePc = "input"
    /\ pureIn.kind = "rounding"
    /\ pureOut' = sizeAndPrice(pureIn.trade, pureIn.weight, pureIn.config, pureIn.execPrice,
                               pureIn.meta, pureIn.positions)
    /\ purePc' = "rounded"
    /\ quietPure

\* A live BUY passes the market-end gate and, later, computes the expiration
\* of its GTD order.
GtdExpiration ==
    /\ purePc = "input"
    /\ pureIn.kind = "expiration"
    /\ pureOut' = gtdExpiration(pureIn.endMs, pureIn.nowMs, pureIn.nowMs + pureIn.delayMs,
                                pureIn.config)
    /\ purePc' = "expiring"
    /\ quietPure

TradingPreflight ==
    /\ purePc = "input"
    /\ pureIn.kind = "signature"
    /\ pureOut' = preflightChecks(pureIn.signatureType, pureIn.funderAddress,
                                  pureIn.walletAddress, pureIn.nowMs, pureIn.failure)
    /\ purePc' = "checked"
    /\ quietPure

NextPure ==
    \/ TradingPreflight
    \/ MarketEndGate
    \/ PreflightAvailable
    \/ MoneyRoundTrip
    \/ NormalizeTrade
    \/ SizeDesired
    \/ SizeAndPrice
    \/ GtdExpiration

SpecPure == InitPure /\ [][NextPure]_vars

\* The micro-units a money string of at most USDC_DECIMALS decimals denotes.
MicroOf(s) == toNumber(s, USDC_DECIMALS)

\* The open BUY orders of a list.
BuyOrders(orders) == SelectSeq(orders, LAMBDA o : o.side \in {"BUY", "buy", "Buy"})

\* price x (original_size - size_matched) of the orders of a list, each in
\* whole micro-units.
RECURSIVE NotionalLeft(_)
NotionalLeft(orders) ==
    IF orders = <<>> THEN 0
    ELSE MulDivScale(MicroOf(Head(orders).price),
                     MicroOf(Head(orders).original_size) - MicroOf(Head(orders).size_matched))
           + NotionalLeft(Tail(orders))

\* C11: the available-to-trade amount of preflight is
\* max(0, min(balance, allowance) - reserved) in micro-units and is never
\* negative, reserved being the sum over the open BUY orders only of
\* price x (original_size - size_matched).
C11_AvailableToTrade ==
    purePc = "preflight" =>
        LET reserved == NotionalLeft(BuyOrders(pureIn.openOrders))
        IN  /\ pureOut.reservedMicro = reserved
            /\ pureOut.availableMicro =
                   Max(0, Min(MicroOf(pureIn.balance), MicroOf(pureIn.allowance)) - reserved)
            /\ pureOut.availableMicro >= 0

\* Balance 100, allowance 75 and one open BUY of 100 @ 0.5, next to an open
\* SELL that reserves nothing, leave 25.
C11_Witness ==
    /\ purePc = "preflight"
    /\ pureIn.balance = <<"1", "0", "0">>
    /\ pureIn.allowance = <<"7", "5">>
    /\ pureIn.openOrders = <<OpenOrder("BUY", <<"1", "0", "0">>, <<"0">>, <<"0", ".", "5">>),
                             OpenOrder("SELL", <<"1", "0", "0">>, <<"0">>, <<"0", ".", "5">>)>>
    /\ pureOut.reservedMicro = 50 * SCALE
    /\ pureOut.availableMicro = 25 * SCALE

\* A decimal money string: an optional sign, digits, and optionally a point
\* followed by digits.
IsDecimalString(s) ==
    LET body == IF s # <<>> /\ Head(s) = "-" THEN Tail(s) ELSE s
        idx == IndexOfDot(body)
    IN  /\ body # <<>>
        /\ \A i \in 1..Len(body) : i # idx => IsDigit(body[i])
        /\ idx # 1
        /\ idx # Len(body)

RECURSIVE DropLeadingZeros(_)
DropLeadingZeros(s) == IF Len(s) > 1 /\ Head(s) = "0" THEN DropLeadingZeros(Tail(s)) ELSE s

\* The decimal value a decimal string denotes: its sign (of a value other
\* than zero), its integer digits without leading zeros and its fractional
\* digits without trailing zeros.
DecimalValue(s) ==
    LET negative == Head(s) = "-"
        body == IF negative THEN Tail(s) ELSE s
        idx == IndexOfDot(body)
        whole == DropLeadingZeros(IF idx = 0 THEN body ELSE SubSeq(body, 1, idx - 1))
        frac == DropTrailingZeros(IF idx = 0 THEN <<>> ELSE SubSeq(body, idx + 1, Len(body)))
    IN  [negative |-> negative /\ (whole # <<"0">> \/ frac # <<>>), whole |-> whole, frac |-> frac]

\* C12: for every decimal money string s with at most 6 fractional digits,
\* formatUsdcMicro(parseUsdcToMicro(s)) denotes the same decimal value as s.
C12_MoneyRoundTrip ==
    (/\ purePc = "formatted"
     /\ IsDecimalString(pureIn.value)
     /\ countDecimals(pureIn.value) <= USDC_DECIMALS)
        => /\ IsDecimalString(pureOut.text)
           /\ DecimalValue(pureOut.text) = DecimalValue(pureIn.value)

\* 09.090900 comes back as 9.0909: a zero after the point is kept, the
\* leading and the trailing zeros go.
C12_Witness ==
    /\ purePc = "formatted"
    /\ pureIn.value = <<"0", "9", ".", "0", "9", "0", "9", "0", "0">>
    /\ pureOut.micro = 9090900
    /\ pureOut.text = <<"9", ".", "0", "9", "0", "9">>

\* The required fields of a raw record that are absent or invalid.
AbsentOrInvalid(raw) ==
    LET side == IF raw.side # Absent THEN raw.side ELSE raw.takerSide
    IN  {f \in {"transactionHash", "conditionId"} : raw[f] = Absent}
          \cup {f \in {"outcomeIndex", "size", "price", "timestamp"} :
                    raw[f] = Absent \/ ~isFinite(Number(raw[f]))}
          \cup (IF side \in {"BUY", "SELL", "buy", "sell"} THEN {} ELSE {"side"})

\* C13: normalizeTrade returns null whenever a required field of the raw
\* record (transaction id, market id, outcome index, side, size, price,
\* timestamp) is absent or invalid; it never returns a Trade in which an
\* absent field has been replaced by a default value.
C13_NullOnMissingField ==
    (purePc = "normalized" /\ AbsentOrInvalid(pureIn.raw) # {}) => pureOut = Null


\* The sizing inputs: the notional of the signal, and the copy notional
\* tradeNotional x copyRatio x weight as the fraction CopyNum / CopyDen of
\* mills.
TradeNotional == pureIn.trade.price * pureIn.trade.size

CopyNum == TradeNotional * pureIn.config.copyRatio.num * pureIn.weight.num

CopyDen == pureIn.config.copyRatio.den * pureIn.weight.den

\* The desired notional of the result is min(copy notional, maxUsdcPerTrade).
DesiredIsMin ==
    IF CopyNum <= pureIn.config.maxUsdcPerTrade * CopyDen
    THEN pureOut.desired.num * CopyDen = CopyNum * pureOut.desired.den
    ELSE pureOut.desired.num = pureIn.config.maxUsdcPerTrade * pureOut.desired.den

\* The whole tenths of desiredNotional / execPrice.
SharesOfDesired == pureOut.desired.num \div (pureOut.desired.den * pureIn.execPrice)

\* The skips of the sizing, and the desired notional of a signal it sizes.
SkipsAndDesired ==
    /\ TradeNotional <= 0 => pureOut.skip = "invalid trade notional"
    /\ (TradeNotional > 0 /\ pureIn.weight.num <= 0) => pureOut.skip = "non-positive weight"
    /\ (TradeNotional > 0 /\ pureIn.weight.num > 0 /\ pureIn.config.maxUsdcPerTrade <= 0) =>
          pureOut.skip = "non-positive desired notional"
    /\ (TradeNotional > 0 /\ pureIn.weight.num > 0 /\ pureIn.config.maxUsdcPerTrade > 0) =>
          pureOut.skip = "" /\ DesiredIsMin

\* The example: 100 shares at 0.50, copyRatio 0.02, weight 1, cap 50 USDC,
\* executable price 0.50, share cap 200.
SizingExample ==
    /\ pureIn.trade.size = 1000
    /\ pureIn.trade.price = 50
    /\ pureIn.config.copyRatio = [num |-> 2, den |-> 100]
    /\ pureIn.weight = [num |-> 1, den |-> 1]
    /\ pureIn.config.maxUsdcPerTrade = 50000
    /\ pureIn.config.maxSharesPerTrade = 2000
    /\ pureIn.execPrice = 50

ExampleSized ==
    SizingExample =>
        /\ pureOut.skip = ""
        /\ pureOut.desired.num = 1000 * pureOut.desired.den
        /\ pureOut.shares = 20

\* C23 as claimed: the pre-rounding share count is desiredNotional /
\* execPrice.
C23_SharesAreDesiredOverPrice ==
    purePc = "sized" =>
        /\ SkipsAndDesired
        /\ pureOut.skip = "" => pureOut.shares = SharesOfDesired
        /\ ExampleSized

\* C23: the desired notional is min(price x size x copyRatio x weight,
\* maxUsdcPerTrade); the pre-rounding share count is desiredNotional /
\* execPrice capped at maxSharesPerTrade; a non-positive trade notional,
\* weight or desired notional is skipped; the example gives 1.0 USDC and 2.0
\* shares.
C23_DesiredNotionalAndShares ==
    purePc = "sized" =>
        /\ SkipsAndDesired
        /\ pureOut.skip = "" =>
              pureOut.shares = Min(SharesOfDesired, pureIn.config.maxSharesPerTrade)
        /\ ExampleSized

\* A signal sized to the share cap: the desired notional would buy more
\* shares than maxSharesPerTrade.
C23_Witness ==
    /\ purePc = "sized"
    /\ pureOut.skip = ""
    /\ SharesOfDesired > pureIn.config.maxSharesPerTrade
    /\ pureOut.shares = pureIn.config.maxSharesPerTrade
    /\ DesiredIsMin


\* min(orderTtlSeconds, floor((endTime - now) / 1000) - expirationSafetySeconds)
FeasibleTtl ==
    Min(pureIn.config.orderTtlSeconds,
        ((pureIn.endMs - pureIn.nowMs) \div 1000) - pureIn.config.expirationSafetySeconds)

\* C24: the market-end gate skips a BUY iff the end time is unknown, or now
\* >= endTime - marketEndSafetySeconds, or min(orderTtlSeconds, floor((endTime
\* - now) / 1000) - expirationSafetySeconds) <= 1; otherwise the signal goes
\* on with that minimum as its order TTL. An end 600 s away with margins of
\* 300 s and 60 s and a TTL of 60 s passes with a TTL of 60 s.
C24_MarketEndGate ==
    purePc = "gated" =>
        /\ pureOut.skip # "" <=>
              \/ pureIn.endMs = 0
              \/ pureIn.nowMs >= pureIn.endMs - pureIn.config.marketEndSafetySeconds * 1000
              \/ FeasibleTtl <= 1
        /\ pureOut.skip = "" => pureOut.ttlSeconds = FeasibleTtl
        /\ (/\ pureIn.endMs - pureIn.nowMs = 600000
            /\ pureIn.config.marketEndSafetySeconds = 300
            /\ pureIn.config.orderTtlSeconds = 60) =>
              pureOut = [skip |-> "", ttlSeconds |-> 60]

\* A market that ends 361.999 s from now passes with the TTL its end leaves:
\* 361 - 60 = 301 s of a configured 400 s.
C24_Witness ==
    /\ purePc = "gated"
    /\ pureIn.endMs - pureIn.nowMs = 361999
    /\ pureIn.config.marketEndSafetySeconds = 300
    /\ pureIn.config.orderTtlSeconds = 400
    /\ pureOut = [skip |-> "", ttlSeconds |-> 301]

\* C38: the expiration of the GTD order of a BUY is not later than the end
\* of the market the gate of the same call used, whatever time passes
\* between the gate and the computation of the expiration.
C38_ExpirationNotAfterMarketEnd ==
    (purePc = "expiring" /\ pureOut.skip = "") => pureOut.expiration * 1000 <= pureIn.endMs

\* The funder is one of the spellings of the signer's address.
FunderIsSigner ==
    /\ pureIn.walletAddress = Address("A")
    /\ pureIn.funderAddress \in {Address("A"), Address("a")}

\* The funder is 0x followed by 40 hex digits.
FunderWellFormed == pureIn.funderAddress \in {Address("A"), Address("a"), Address("b")}

\* The call ends skipped with this reasonCode, before any request.
RejectedWith(code) ==
    /\ pureOut.reasonCode = code
    /\ pureOut.status = "skipped"
    /\ ~pureOut.fetched

Rounded == purePc = "rounded" /\ pureOut.skip \in {"", "size below min", "invalid limit price"}

\* The share count before the rounding, as the fraction num/den of a tenth
\* of a share: the least of desired notional / executable price, the share
\* cap and, for a SELL, the held size.
ShareCount ==
    LET cfg == pureIn.config
        trade == pureIn.trade
        notional == trade.price * trade.size * cfg.copyRatio.num
        capped == IF notional > cfg.maxUsdcPerTrade * cfg.copyRatio.den
                  THEN [num |-> cfg.maxUsdcPerTrade, den |-> pureIn.execPrice]
                  ELSE [num |-> notional, den |-> cfg.copyRatio.den * pureIn.execPrice]
        caps == {cfg.maxSharesPerTrade}
                \cup (IF trade.side = "SELL"
                      THEN {availableShares(pureIn.positions, trade)} ELSE {})
        cap == CHOOSE c \in caps : \A d \in caps : c <= d
    IN  IF capped.num > cap * capped.den THEN [num |-> cap, den |-> 1] ELSE capped

\* One step of the size grid, in tenths: the decimals of the minimum-order-
\* size string.
SizeStep == Pow10(1 - countDecimals(pureIn.meta.minOrderSize))

MinOrderSize == toNumber(pureIn.meta.minOrderSize, 1)

\* The largest size on the grid that is not above the share count.
FloorOnGrid(size) ==
    /\ size % SizeStep = 0
    /\ size * ShareCount.den <= ShareCount.num
    /\ (size + SizeStep) * ShareCount.den > ShareCount.num

TickCents == toNumber(pureIn.meta.tickSize, 2)

\* execPrice * (1 + slippagePct) for a BUY, execPrice * (1 - slippagePct)
\* for a SELL, as the fraction num/den of a cent.
LimitPriceRaw ==
    LET slip == pureIn.config.slippagePct
    IN  [num |-> IF pureIn.trade.side = "BUY" THEN pureIn.execPrice * (slip.den + slip.num)
                 ELSE pureIn.execPrice * (slip.den - slip.num),
         den |-> slip.den]

\* The price on the tick grid next to the raw limit price: at or above it
\* for a BUY, at or below it for a SELL.
NextOnTickGrid(price) ==
    /\ price % TickCents = 0
    /\ IF pureIn.trade.side = "BUY"
       THEN /\ price * LimitPriceRaw.den >= LimitPriceRaw.num
            /\ (price - TickCents) * LimitPriceRaw.den < LimitPriceRaw.num
       ELSE /\ price * LimitPriceRaw.den <= LimitPriceRaw.num
            /\ (price + TickCents) * LimitPriceRaw.den > LimitPriceRaw.num

\* C32: the limit price of an order is a positive whole multiple of the
\* tick size: for a BUY the smallest one that is not below execPrice * (1 +
\* slippagePct), for a SELL the largest one that is not above execPrice *
\* (1 - slippagePct); when that multiple is 0 the trade is skipped with
\* "invalid limit price".
C32_LimitPriceOnTick ==
    Rounded =>
      /\ pureOut.skip = "" =>
           /\ pureOut.limitPrice > 0
           /\ NextOnTickGrid(pureOut.limitPrice)
      /\ pureOut.skip = "invalid limit price" => NextOnTickGrid(0)
      /\ (NextOnTickGrid(0) /\ pureOut.skip # "size below min") =>
           pureOut.skip = "invalid limit price"

\* A SELL at 4 cents in a market with a tick of 0.1 is skipped.
SellBelowOneTick ==
    /\ Rounded
    /\ pureIn.trade.side = "SELL"
    /\ pureIn.execPrice = 4
    /\ pureOut.skip = "invalid limit price"

\* A BUY is priced at the tick above its raw limit price: 50 cents, 2%
\* slippage, tick 0.1 give 60 cents.
C32_Witness ==
    /\ Rounded
    /\ pureIn.trade.side = "BUY"
    /\ pureOut.skip = ""
    /\ TickCents = 10
    /\ pureIn.execPrice = 50
    /\ pureIn.config.slippagePct.num = 2
    /\ pureOut.limitPrice = 60

\* C33: the size of an order is the share count rounded down to the
\* decimals of the minimum-order-size string, it is not below the minimum
\* order size and not above maxSharesPerTrade; when the rounded share count
\* is 0 or below the minimum the trade is skipped with "size below min".
C33_SizeRoundedDown ==
    Rounded =>
      /\ pureOut.skip = "" =>
           /\ FloorOnGrid(pureOut.shares)
           /\ MinOrderSize <= pureOut.shares
           /\ pureOut.shares <= pureIn.config.maxSharesPerTrade
           /\ pureOut.shares > 0
      /\ pureOut.skip = "size below min" <=>
           \E size \in 0..pureIn.config.maxSharesPerTrade :
               FloorOnGrid(size) /\ (size <= 0 \/ size < MinOrderSize)

\* A SELL of a position of 0.3 shares with a minimum of 0.5 is skipped.
SellBelowMinimum ==
    /\ Rounded
    /\ pureIn.trade.side = "SELL"
    /\ ShareCount = [num |-> 3, den |-> 1]
    /\ MinOrderSize = 5
    /\ pureOut.skip = "size below min"

\* A SELL of a position of 1.5 shares in a market whose sizes are whole
\* shares gives an order of 1 share.
C33_Witness ==
    /\ Rounded
    /\ pureIn.trade.side = "SELL"
    /\ ShareCount = [num |-> 15, den |-> 1]
    /\ SizeStep = 10
    /\ pureOut.skip = ""
    /\ pureOut.shares = 10

\* ---------------------------------------------------------------- scoring.ts

\* Targets handed to computeScores.
MaxTargets == 2

\* createLimiter(4)
LimiterSize == 4

TargetLists == {SubSeq(<<"w1", "w2", "w3">>, 1, n) : n \in 1..Min(MaxTargets, 3)}

\* Config fields of the score: lookbackDays as a time span of the model's
\* clock, openPnlPenaltyFactor as the fraction 1/4 (its default 0.25).
ScoreConfig ==
    [lookbackMs |-> 1, minClosedSample |-> 1, openPnlPenaltyFactor |-> [num |-> 1, den |-> 4]]

ClosedRow(timestampMs, realizedPnl, totalBought) ==
    [timestampMs |-> timestampMs, realizedPnl |-> realizedPnl, totalBought |-> totalBought]

Fulfilled(value) == [ok |-> TRUE, value |-> value]

Rejected == [ok |-> FALSE, value |-> <<>>]

\* What fetchClosedPositions settles with.
ClosedAnswers ==
    {Rejected, Fulfilled(<<>>), Fulfilled(<<ClosedRow(0, 2000, 100)>>),
     Fulfilled(<<ClosedRow(2, 2000, 100), ClosedRow(1, -1000, 0)>>)}

\* What fetchPositions settles with (cashPnl of each open position).
OpenAnswers == {Rejected, Fulfilled(<<>>), Fulfilled(<<[cashPnl |-> -8], [cashPnl |-> 4]>>)}

RECURSIVE SumOf(_, _)
SumOf(rows, field) == IF rows = <<>> THEN 0 ELSE Head(rows)[field] + SumOf(Tail(rows), field)

\* The TraderScore of the try block of a task: roi and score are the exact
\* fractions [num, den].
ScoreOf(target, closed, positions, cfg, t) ==
    LET recent == SelectSeq(closed, LAMBDA row : row.timestampMs >= t - cfg.lookbackMs)
        realizedPnlSum == SumOf(recent, "realizedPnl")
        totalBoughtSum == SumOf(recent, "totalBought")
        sample == Len(recent)
        bought == Max(1, totalBoughtSum)
        openPnlSum == SumOf(positions, "cashPnl")
        f == cfg.openPnlPenaltyFactor
        eligible == sample >= cfg.minClosedSample
    IN  [proxyWallet |-> target,
         roi |-> [num |-> realizedPnlSum, den |-> bought],
         realizedPnlSum |-> realizedPnlSum, totalBoughtSum |-> totalBoughtSum,
         sample |-> sample, openPnlSum |-> openPnlSum,
         score |-> IF eligible
                   THEN [num |-> realizedPnlSum * 100 * 1000 * f.den + realizedPnlSum * bought * f.den
                                   - f.num * Max(0, -openPnlSum) * 1000 * bought,
                         den |-> 1000 * bought * f.den]
                   ELSE [num |-> SentinelScore, den |-> 1],
         eligible |-> eligible, timestampMs |-> t]

\* The TraderScore of the catch block of a task.
FallbackScore(target, t) ==
    [proxyWallet |-> target, roi |-> [num |-> 0, den |-> 1], realizedPnlSum |-> 0,
     totalBoughtSum |-> 0, sample |-> 0, openPnlSum |-> 0,
     score |-> [num |-> SentinelScore, den |-> 1], eligible |-> FALSE, timestampMs |-> t]

rethrowFetchFailure(target, t) == [settled |-> "rejected", value |-> FallbackScore(target, t)]

\* How a task settles when one of its fetches rejects: the catch block.
catchFetchFailure(target, t) == [settled |-> "fulfilled", value |-> FallbackScore(target, t)]

QueuedTask == [pc |-> "queued", closed |-> Rejected, positions |-> Rejected,
               settled |-> "pending", value |-> <<>>]

ScoreQuiet ==
    /\ scorePc = "idle"
    /\ scoreTargets = <<>>
    /\ scoreTasks = <<>>
    /\ savedScores = {}
    /\ scoreResult = <<>>

InitScore ==
    /\ now \in 2..MaxNow
    /\ SelQuiet(PollConfig)
    /\ PollQuiet
    /\ MirrorQuiet
    /\ PureQuiet
    /\ ScoreQuiet
    /\ allowCallers = <<>>
    /\ allowChecks = <<>>
    /\ inFlight = 0
    /\ lastApprovalMs = 0
    /\ approvals = <<>>

quietScore == UNCHANGED <<selVars, pollVars, mirVars, pureVars, allowVars>>

\* computeScores is called: one task per target is handed to the limiter.
ScoreCall ==
    /\ scorePc = "idle"
    /\ scorePc' = "running"
    /\ \E targets \in TargetLists :
         /\ scoreTargets' = targets
         /\ scoreTasks' = [i \in 1..Len(targets) |-> QueuedTask]
    /\ UNCHANGED <<savedScores, scoreResult>>
    /\ quietScore

ActiveTasks == {i \in 1..Len(scoreTasks) : scoreTasks[i].pc \in {"closed", "positions"}}

\* The limiter starts a queued task: it awaits fetchClosedPositions.
TaskStarts ==
    /\ scorePc = "running"
    /\ \E i \in 1..Len(scoreTasks) :
         /\ scoreTasks[i].pc = "queued"
         /\ Cardinality(ActiveTasks) < LimiterSize
         /\ scoreTasks' = [scoreTasks EXCEPT ![i].pc = "closed"]
    /\ UNCHANGED <<scorePc, scoreTargets, savedScores, scoreResult>>
    /\ quietScore

\* A task whose fetch rejected: the catch block saves and returns the
\* fallback.
TaskFails(i) ==
    LET end == catchFetchFailure(scoreTargets[i], now)
    IN  /\ scoreTasks' = [scoreTasks EXCEPT ![i].pc = "done", ![i].settled = end.settled,
                                            ![i].value = end.value]
        /\ savedScores' = IF end.settled = "fulfilled" THEN savedScores \cup {end.value}
                          ELSE savedScores

\* fetchClosedPositions of a task settles.
ClosedSettles ==
    /\ scorePc = "running"
    /\ \E i \in 1..Len(scoreTasks), answer \in ClosedAnswers :
         /\ scoreTasks[i].pc = "closed"
         /\ IF answer.ok
            THEN /\ scoreTasks' = [scoreTasks EXCEPT ![i].pc = "positions", ![i].closed = answer]
                 /\ UNCHANGED savedScores
            ELSE TaskFails(i)
    /\ UNCHANGED <<scorePc, scoreTargets, scoreResult>>
    /\ quietScore

\* fetchPositions of a task settles: the score is computed, saved and
\* returned.
OpenSettles ==
    /\ scorePc = "running"
    /\ \E i \in 1..Len(scoreTasks), answer \in OpenAnswers :
         /\ scoreTasks[i].pc = "positions"
         /\ IF answer.ok
            THEN LET result == ScoreOf(scoreTargets[i], scoreTasks[i].closed.value, answer.value,
                                       ScoreConfig, now)
                 IN  /\ scoreTasks' = [scoreTasks EXCEPT ![i].pc = "done", ![i].positions = answer,
                                                         ![i].settled = "fulfilled",
                                                         ![i].value = result]
                     /\ savedScores' = savedScores \cup {result}
            ELSE TaskFails(i)
    /\ UNCHANGED <<scorePc, scoreTargets, scoreResult>>
    /\ quietScore

\* Promise.all(tasks) settles: with the values in the order of the targets,
\* or rejected when a task rejected.
ScoresSettle ==
    /\ scorePc = "running"
    /\ \A i \in 1..Len(scoreTasks) : scoreTasks[i].pc = "done"
    /\ IF \E i \in 1..Len(scoreTasks) : scoreTasks[i].settled = "rejected"
       THEN scorePc' = "rejected" /\ UNCHANGED scoreResult
       ELSE /\ scorePc' = "resolved"
            /\ scoreResult' = [i \in 1..Len(scoreTasks) |-> scoreTasks[i].value]
    /\ UNCHANGED <<scoreTargets, scoreTasks, savedScores>>
    /\ quietScore

NextScore ==
    \/ ScoreCall
    \/ TaskStarts
    \/ ClosedSettles
    \/ OpenSettles
    \/ ScoresSettle

SpecScore == InitScore /\ [][NextScore]_vars

\* The task of target i had one of its fetches rejected.
FetchFailed(i) == ~scoreTasks[i].closed.ok \/ ~scoreTasks[i].positions.ok

MaxCallers == 3

AllowanceCallers == 1..MaxCallers

\* computeRequiredAllowanceMicro of the callers: the minimum allowance (the
\* startup and interval checks) or a larger pre-trade notional.
RequiredMicros == {50, 100}

\* The allowance fetchAllowance reads on chain.
ChainAllowances == {0, 50, 100}

NoStatus == [ok |-> FALSE, allowanceMicro |-> 0, requiredMicro |-> 0, reason |-> "none"]

IdleCaller == [pc |-> "idle", requiredMicro |-> 0, status |-> NoStatus]

\* A performCheck call in progress, awaited by `waiters` in the order they
\* began to await it.
RunningCheck(requiredMicro, owner) ==
    [state |-> "running", requiredMicro |-> requiredMicro, waiters |-> <<owner>>,
     status |-> NoStatus, attemptMs |-> 0]

\* The status performCheck returns (AUTO_APPROVE off) for the allowance read,
\* or when the read fails.
CheckStatus(requiredMicro, allowanceMicro, readOk) ==
    IF ~readOk
    THEN [ok |-> FALSE, allowanceMicro |-> 0, requiredMicro |-> requiredMicro,
          reason |-> "error"]
    ELSE IF allowanceMicro >= requiredMicro
    THEN [ok |-> TRUE, allowanceMicro |-> allowanceMicro, requiredMicro |-> requiredMicro,
          reason |-> ""]
    ELSE [ok |-> FALSE, allowanceMicro |-> allowanceMicro, requiredMicro |-> requiredMicro,
          reason |-> "allowance too low"]

\* Date.now() of the allowance manager, one tick of the clock being
\* ApprovalTickMs.
ApprovalTickMs == 150000

DateNow == now * ApprovalTickMs

\* The clock of the approval runs stops here.
MaxApprovalNow == 4

APPROVAL_COOLDOWN_MS == 5 * 60 * 1000

\* Variant of the cooldown test: no attempt counts as recent.
approvalNeverRecent(nowMs, lastMs) == FALSE

\* performCheck: `now - this.lastApprovalMs < APPROVAL_COOLDOWN_MS`
approvalRecentlyAttempted(nowMs, lastMs) == nowMs - lastMs < APPROVAL_COOLDOWN_MS

\* performCheck from the allowance read to the cooldown test, AUTO_APPROVE
\* on and the allowance too low: "cooldown" when an attempt was made within
\* the cooldown, "attempt" when the approval goes ahead, the reason of
\* validateAutoApprove when it finds an issue.
approvalStep(validated, nowMs, lastMs) ==
    IF ~validated THEN "Signer does not match allowance owner."
    ELSE IF approvalRecentlyAttempted(nowMs, lastMs) THEN "approval recently attempted"
    ELSE "attempt"

\* The status performCheck returns without an approval of its own.
RefusedStatus(requiredMicro, allowanceMicro, reason) ==
    [ok |-> FALSE, allowanceMicro |-> allowanceMicro, requiredMicro |-> requiredMicro,
     reason |-> reason]

\* The status performCheck returns after its approval attempt: the approve
\* call was not sent or threw (the catch block), or it was mined and the
\* allowance was read again.
ApprovalStatus(requiredMicro, allowanceMicro, sent, readOk) ==
    IF ~sent \/ ~readOk
    THEN [ok |-> FALSE, allowanceMicro |-> 0, requiredMicro |-> requiredMicro,
          reason |-> "error"]
    ELSE [ok |-> allowanceMicro >= requiredMicro, allowanceMicro |-> allowanceMicro,
          requiredMicro |-> requiredMicro,
          reason |-> IF allowanceMicro >= requiredMicro THEN ""
                     ELSE "allowance still below requirement after approval"]

\* ensureAllowance lines 101-103: performCheck is called (it runs up to its
\* first await) and the caller awaits it.
StartCheck(st, c) ==
    [callers |-> [st.callers EXCEPT ![c].pc = "checking"],
     checks |-> Append(st.checks, RunningCheck(st.callers[c].requiredMicro, c)),
     inFlight |-> Len(st.checks) + 1]

\* The continuation of caller c after the promise it awaited fulfilled with
\* `existing`: the finally block of the caller that started the check, or
\* lines 97-103 of a caller that waited at line 96.
ResumeCaller(st, c, existing) ==
    IF st.callers[c].pc = "checking"
    THEN [st EXCEPT !.callers[c].pc = "done", !.callers[c].status = existing, !.inFlight = 0]
    ELSE IF existing.ok /\ existing.allowanceMicro >= st.callers[c].requiredMicro
    THEN [st EXCEPT !.callers[c].pc = "done",
                    !.callers[c].status =
                        [existing EXCEPT !.requiredMicro = st.callers[c].requiredMicro]]
    ELSE StartCheck(st, c)

\* The continuations of the callers awaiting one promise run in the order
\* the callers began to await, with nothing else in between.
RECURSIVE ResumeAll(_, _, _)
ResumeAll(st, waiters, existing) ==
    IF waiters = <<>> THEN st
    ELSE ResumeAll(ResumeCaller(st, Head(waiters), existing), Tail(waiters), existing)

AllowQuiet ==
    /\ allowCallers = <<>>
    /\ allowChecks = <<>>
    /\ inFlight = 0
    /\ lastApprovalMs = 0
    /\ approvals = <<>>

InitAllow ==
    /\ now = 1
    /\ SelQuiet(PollConfig)
    /\ PollQuiet
    /\ MirrorQuiet
    /\ PureQuiet
    /\ scorePc = "idle"
    /\ scoreTargets = <<>>
    /\ scoreTasks = <<>>
    /\ savedScores = {}
    /\ scoreResult = <<>>
    /\ allowCallers = [c \in AllowanceCallers |-> IdleCaller]
    /\ allowChecks = <<>>
    /\ inFlight = 0
    /\ lastApprovalMs = 0
    /\ approvals = <<>>

quietAllow == UNCHANGED <<selVars, pollVars, mirVars, pureVars, scoreVars>>

\* allowance.ts ensureAllowance up to its first await: of the check in
\* flight (line 96), or of the check it starts (line 103).
EnsureAllowance ==
    /\ \E c \in AllowanceCallers, requiredMicro \in RequiredMicros :
         /\ allowCallers[c].pc = "idle"
         /\ LET called == [allowCallers EXCEPT ![c].requiredMicro = requiredMicro]
            IN  IF inFlight # 0
                THEN /\ allowCallers' = [called EXCEPT ![c].pc = "waiting"]
                     /\ allowChecks' = [allowChecks EXCEPT ![inFlight].waiters = Append(@, c)]
                     /\ UNCHANGED inFlight
                ELSE LET st == StartCheck([callers |-> called, checks |-> allowChecks,
                                           inFlight |-> inFlight], c)
                     IN  /\ allowCallers' = st.callers
                         /\ allowChecks' = st.checks
                         /\ inFlight' = st.inFlight
    /\ UNCHANGED <<lastApprovalMs, approvals>>
    /\ quietAllow

\* A performCheck call gets the allowance read.  It returns, and every
\* caller awaiting it continues; or, with AUTO_APPROVE on and the allowance
\* too low, it goes on to validateAutoApprove and the cooldown test, and
\* past them sets lastApprovalMs and begins the approval.
CheckSettles ==
    /\ \E p \in 1..Len(allowChecks), allowanceMicro \in ChainAllowances, readOk \in BOOLEAN,
          validated \in BOOLEAN :
         /\ allowChecks[p].state = "running"
         /\ validated \/ config.autoApprove
         /\ LET requiredMicro == allowChecks[p].requiredMicro
                approving == config.autoApprove /\ readOk /\ allowanceMicro < requiredMicro
                step == approvalStep(validated, DateNow, lastApprovalMs)
                status == IF approving
                          THEN RefusedStatus(requiredMicro, allowanceMicro, step)
                          ELSE CheckStatus(requiredMicro, allowanceMicro, readOk)
                settled == [allowChecks EXCEPT ![p].state = "settled", ![p].status = status]
                st == ResumeAll([callers |-> allowCallers, checks |-> settled,
                                 inFlight |-> inFlight],
                                allowChecks[p].waiters, status)
            IN  IF approving /\ step = "attempt"
                THEN /\ lastApprovalMs' = DateNow
                     /\ allowChecks' = [allowChecks EXCEPT ![p].state = "approving",
                                                           ![p].attemptMs = DateNow]
                     /\ UNCHANGED <<allowCallers, inFlight>>
                ELSE /\ allowCallers' = st.callers
                     /\ allowChecks' = st.checks
                     /\ inFlight' = st.inFlight
                     /\ UNCHANGED lastApprovalMs
    /\ UNCHANGED approvals
    /\ quietAllow

\* The approval of a performCheck call ends: approve was sent with the
\* signer, mined and the allowance read again, or something on the way
\* threw.  The call returns and every caller awaiting it continues.
ApprovalSettles ==
    /\ \E p \in 1..Len(allowChecks), allowanceMicro \in ChainAllowances, sent \in BOOLEAN,
          readOk \in BOOLEAN :
         /\ allowChecks[p].state = "approving"
         /\ sent \/ readOk
         /\ LET status == ApprovalStatus(allowChecks[p].requiredMicro, allowanceMicro, sent,
                                         readOk)
                settled == [allowChecks EXCEPT ![p].state = "settled", ![p].status = status]
                st == ResumeAll([callers |-> allowCallers, checks |-> settled,
                                 inFlight |-> inFlight],
                                allowChecks[p].waiters, status)
            IN  /\ allowCallers' = st.callers
                /\ allowChecks' = st.checks
                /\ inFlight' = st.inFlight
                /\ approvals' = IF sent THEN Append(approvals, allowChecks[p].attemptMs)
                                ELSE approvals
    /\ UNCHANGED lastApprovalMs
    /\ quietAllow

\* Time passes.
ApprovalClock ==
    /\ now < MaxApprovalNow
    /\ now' = now + 1
    /\ UNCHANGED <<config, leaderState, switches, topkState, scores, selection, evalPc, before>>
    /\ UNCHANGED <<pollVars, mirVars, auxVars>>

NextAllow ==
    \/ EnsureAllowance
    \/ CheckSettles

SpecAllow == InitAllow /\ [][NextAllow]_vars

RunningChecks == {p \in 1..Len(allowChecks) : allowChecks[p].state = "running"}

\* C16: for one AllowanceManager at most one performCheck is executing at
\* any time, for any number of overlapping ensureAllowance callers.
C16_SingleFlight == Cardinality(RunningChecks) <= 1

\* The allowance manager with AUTO_APPROVE on, started when the clock is past
\* the first cooldown (lastApprovalMs is 0 at construction).
ApproveConfig == [PollConfig EXCEPT !.autoApprove = TRUE]

InitApprove ==
    /\ now = 2
    /\ SelQuiet(ApproveConfig)
    /\ PollQuiet
    /\ MirrorQuiet
    /\ PureQuiet
    /\ scorePc = "idle"
    /\ scoreTargets = <<>>
    /\ scoreTasks = <<>>
    /\ savedScores = {}
    /\ scoreResult = <<>>
    /\ allowCallers = [c \in AllowanceCallers |-> IdleCaller]
    /\ allowChecks = <<>>
    /\ inFlight = 0
    /\ lastApprovalMs = 0
    /\ approvals = <<>>

NextApprove ==
    \/ EnsureAllowance
    \/ CheckSettles
    \/ ApprovalSettles
    \/ ApprovalClock

SpecApprove == InitApprove /\ [][NextApprove]_vars

\* The lastApprovalMs of every attempt that got past the cooldown test: those
\* that sent approve and those still on the way.
AttemptTimes ==
    {approvals[i] : i \in DOMAIN approvals}
    \cup {allowChecks[p].attemptMs : p \in {q \in DOMAIN allowChecks :
                                               allowChecks[q].state = "approving"}}

RefusedInCooldown(p) ==
    /\ allowChecks[p].state = "running"
    /\ allowChecks'[p].state = "settled"
    /\ allowChecks'[p].status.reason = "approval recently attempted"

====
